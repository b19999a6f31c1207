------------------------ MODULE SubscriptionsProofs ------------------------
(***************************************************************************)
(* A watcher is kept up to date, for every number of subscriptions, of     *)
(* requests, of packets that get lost or are challenged, and of tries.     *)
(*                                                                         *)
(* What a NOTIFY on its way tells is compared with what its watcher heard  *)
(* last, and neither end knows both.  The argument goes through the phone: *)
(* a NOTIFY that has not arrived has no answer (OnItsWay), one without an  *)
(* answer is the one the phone noted last (OneOpen), which has the latest  *)
(* news of its call (LastNews), and nothing was ever heard that no NOTIFY  *)
(* told (HeardWasTold).  OneOpen rests on CanNotify, on the challenged     *)
(* request being the last, and on forgetting all NOTIFYs with their call.  *)
(* The other half is about who is forgotten: a phone forgets a watcher     *)
(* that is still there only when that one gave up, or something got lost,  *)
(* because a NOTIFY is only refused where nobody watches (Unwatched).      *)
(***************************************************************************)
EXTENDS Subscriptions, FiniteSetTheorems, SequenceTheorems, TLAPS

-----------------------------------------------------------------------------
(* The inductive invariant. *)

Dialogue == [local_cseq : Nat, out : Nat, retry : Nat]
Subscribe == [out : Nat, dialogs : Seq(Dialogue), period : Nat, retry : Nat]
Notifier == [inc : Nat, out : Nat, local_cseq : Nat, status : {"none", "terminated"}, retry : Nat]
Requests == [by : {"watcher", "phone"}, call : Calls, cseq : Nat, expires : {0, 600},
             status : {"none", "active", "terminated"}, news : Nat, cred : BOOLEAN,
             state : {"trying", "completed", "terminated"}, answer : Nat,
             served : {"no", "proceeding", "completed"}, known : BOOLEAN]

SubTypeOK ==
    /\ DOMAIN js \subseteq Calls /\ js \in [DOMAIN js -> Subscribe]
    /\ DOMAIN jn \subseteq Calls /\ jn \in [DOMAIN jn -> Notifier]
    /\ trs \in Seq(Requests)
    /\ post \subseteq (1 .. Len(trs)) \X Nat
    /\ inbox \subseteq 1 .. Len(trs)
    /\ seen \in [heard : [Calls -> Nat], news : Nat, trouble : Nat]

\* The requests of one side for a call.
Sent(by, c) == {t \in 1 .. Len(trs) : trs[t].by = by /\ trs[t].call = c}

\* The subscriptions started, each by a request with CSeq 1.
Firsts == {t \in 1 .. Len(trs) : trs[t].by = "watcher" /\ trs[t].cseq = 1}

\* No call beyond the number of those started has a request.
Numbered == \A t \in 1 .. Len(trs) : trs[t].by = "watcher" => trs[t].cseq >= 1 /\ trs[t].call <= Cardinality(Firsts)

\* t is the request with the highest CSeq, and only it may be open.
Latest(c, t) ==
    /\ t \in Sent("watcher", c)
    /\ \A u \in Sent("watcher", c) : u # t => trs[u].cseq < trs[t].cseq /\ Closed(u)

\* What the watcher keeps of a call finds the latest request, and all of them are known.
Watching ==
    \A c \in DOMAIN js :
        LET s == js[c] IN
        /\ s.out \in 1 .. Len(trs) /\ Len(s.dialogs) <= 1
        /\ Latest(c, eXosip_find_last_out_subscribe(c))
        /\ s.dialogs # << >> => /\ s.dialogs[1].local_cseq = trs[eXosip_find_last_out_subscribe(c)].cseq
                                /\ s.dialogs[1].out # s.out
        /\ \A t \in Sent("watcher", c) : trs[t].known

\* No two requests of a call have the same number.
OneCSeqEach == \A t, u \in 1 .. Len(trs) :
    trs[t].by = "watcher" /\ trs[u].by = "watcher" /\ trs[t].call = trs[u].call /\ trs[t].cseq = trs[u].cseq
       => t = u

\* What the phone keeps of a call is about a SUBSCRIBE that came.
Subscribed ==
    \A c \in DOMAIN jn :
        /\ jn[c].inc \in Sent("watcher", c) /\ trs[jn[c].inc].served # "no"
        /\ jn[c].status = "terminated" => \E t \in Sent("watcher", c) : trs[t].expires = 0

\* The NOTIFY sent last has the latest news of its call.
LastNews ==
    \A c \in DOMAIN jn : jn[c].out # 0 =>
        jn[c].out \in Sent("phone", c) /\ \A u \in Sent("phone", c) : trs[u].news <= trs[jn[c].out].news

\* A NOTIFY without an answer is the last one, unless its subscription was removed.
OneOpen ==
    \A t \in 1 .. Len(trs) : trs[t].by = "phone" /\ trs[t].known /\ ~Closed(t) =>
        trs[t].call \in DOMAIN jn /\ jn[trs[t].call].out = t

NewsTold == \A t \in 1 .. Len(trs) : trs[t].by = "phone" => trs[t].news <= seen.news

HeardWasTold == \A c \in Calls : seen.heard[c] = 0 \/ \E t \in Sent("phone", c) : trs[t].news = seen.heard[c]

\* Whoever is answered has been received, and answers are those the code gives.
Answers ==
    /\ \A t \in inbox : trs[t].by = "watcher"
    /\ \A m \in post : trs[m[1]].by = "watcher" /\ m[2] \in 1 .. 299 => trs[m[1]].served # "no"
    /\ \A m \in post : trs[m[1]].by = "phone" => m[2] \in {0, 200, 407, 481}
    /\ \A t \in 1 .. Len(trs) : trs[t].by = "phone" => trs[t].answer \in {0, 200, 407, 481}
    /\ \A t \in 1 .. Len(trs) : trs[t].state = "completed" => trs[t].answer # 0

\* A NOTIFY that has not arrived has no answer.
OnItsWay ==
    \A m \in post : trs[m[1]].by = "phone" /\ m[2] = 0 =>
        trs[m[1]].state = "trying" /\ \A k \in post : k[1] = m[1] => k = m

\* A NOTIFY is only refused, and a last one only accepted, where nobody watches any more.
Unwatched ==
    /\ \A m \in post : trs[m[1]].by = "phone" /\ (m[2] = 481 \/ (m[2] = 200 /\ trs[m[1]].status = "terminated")) =>
          trs[m[1]].call \notin DOMAIN js
    /\ \A t \in 1 .. Len(trs) : trs[t].by = "phone" /\ trs[t].answer = 481 => trs[t].call \notin DOMAIN js

\* The end of a farewell is the end of the subscription.
Farewell ==
    \A t \in 1 .. Len(trs) :
        trs[t].by = "watcher" /\ trs[t].expires = 0 /\ trs[t].state = "terminated" => trs[t].call \notin DOMAIN js

\* Where no packet gets lost, a NOTIFY gets its answer.
Delivered ==
    seen.trouble = 0 =>
        \A t \in 1 .. Len(trs) : trs[t].by = "phone" /\ trs[t].state = "trying" => \E m \in post : m[1] = t

\* A SUBSCRIBE of the call came to the phone.
Reached(c) == \E t \in Sent("watcher", c) : trs[t].served # "no"

\* The watcher asked to end the subscription.
GivenUp(c) == \E t \in Sent("watcher", c) : trs[t].expires = 0

\* Whoever is notified or has a dialog was received, and is still known where nothing went wrong.
Served ==
    /\ \A c \in Calls : Sent("phone", c) # {} => Reached(c)
    /\ \A c \in DOMAIN js : js[c].dialogs # << >> => Reached(c)
    /\ seen.trouble = 0 => \A c \in DOMAIN js : Reached(c) => c \in DOMAIN jn \/ GivenUp(c)

SubInv ==
    /\ SubTypeOK /\ Numbered /\ Watching /\ OneCSeqEach /\ Subscribed /\ LastNews /\ OneOpen /\ NewsTold
    /\ HeardWasTold /\ Answers /\ OnItsWay /\ Unwatched /\ Farewell /\ Delivered /\ Served

-----------------------------------------------------------------------------
(* The operators. *)

\* r is a request as it is sent.
Fresh(r, by, c, cseq, expires, status, news) ==
    /\ r \in Requests /\ r.by = by /\ r.call = c /\ r.cseq = cseq /\ r.expires = expires /\ r.status = status /\ r.news = news
    /\ r.state = "trying" /\ r.answer = 0 /\ r.served = "no" /\ r.known = TRUE

\* How the code makes one up, at first and with credentials.
SubscribeOf(c, cseq, e) == [Request("watcher", c, cseq) EXCEPT !.expires = e]
SubscribeAgain(c, cseq, e) == [Request("watcher", c, cseq) EXCEPT !.expires = e, !.cred = TRUE]
NotifyOf(c, cseq, s, w) == [Request("phone", c, cseq) EXCEPT !.status = s, !.news = w]
NotifyAgain(c, cseq, s, w) == [Request("phone", c, cseq) EXCEPT !.status = s, !.news = w, !.cred = TRUE]

\* Whatever either side makes up is a request nobody has seen yet.
LEMMA FreshRequest ==
    ASSUME NEW by \in {"watcher", "phone"}, NEW c \in Calls, NEW cseq \in Nat
    PROVE  Fresh(Request(by, c, cseq), by, c, cseq, 0, "none", 0)
<1>1. \A known \in BOOLEAN, cred \in BOOLEAN :
        [by |-> by, call |-> c, cseq |-> cseq, expires |-> 0, status |-> "none", news |-> 0, cred |-> cred,
         state |-> "trying", answer |-> 0, served |-> "no", known |-> known] \in Requests
  BY DEF Requests
<1>2. Request(by, c, cseq) \in Requests
  BY <1>1 DEF Request
<1>3. Request(by, c, cseq).known = TRUE
  BY Zenon DEF Request
<1> QED BY <1>2, <1>3 DEF Fresh, Request

\* The SUBSCRIBEs, at first and with credentials.
LEMMA FreshSubscribe ==
    ASSUME NEW c \in Calls, NEW cseq \in Nat, NEW e \in {0, 600}
    PROVE  /\ Fresh(SubscribeOf(c, cseq, e), "watcher", c, cseq, e, "none", 0)
           /\ Fresh(SubscribeAgain(c, cseq, e), "watcher", c, cseq, e, "none", 0)
<1>1. Fresh(Request("watcher", c, cseq), "watcher", c, cseq, 0, "none", 0)
  BY FreshRequest
<1>2. ASSUME NEW q, Fresh(q, "watcher", c, cseq, 0, "none", 0)
      PROVE  Fresh([q EXCEPT !.expires = e], "watcher", c, cseq, e, "none", 0)
  BY <1>2 DEF Fresh, Requests
<1>3. ASSUME NEW q, NEW b \in BOOLEAN, Fresh(q, "watcher", c, cseq, e, "none", 0)
      PROVE  Fresh([q EXCEPT !.cred = b], "watcher", c, cseq, e, "none", 0)
  BY <1>3 DEF Fresh, Requests
<1>4. Fresh([Request("watcher", c, cseq) EXCEPT !.expires = e], "watcher", c, cseq, e, "none", 0)
  BY <1>1, <1>2
<1>5. Fresh([[Request("watcher", c, cseq) EXCEPT !.expires = e] EXCEPT !.cred = TRUE], "watcher", c, cseq, e, "none", 0)
  BY <1>3, <1>4
<1> QED BY <1>4, <1>5 DEF SubscribeOf, SubscribeAgain

\* The NOTIFYs.
LEMMA FreshNotify ==
    ASSUME NEW c \in Calls, NEW cseq \in Nat, NEW s \in {"none", "active", "terminated"}, NEW w \in Nat
    PROVE  /\ Fresh(NotifyOf(c, cseq, s, w), "phone", c, cseq, 0, s, w)
           /\ Fresh(NotifyAgain(c, cseq, s, w), "phone", c, cseq, 0, s, w)
<1>1. Fresh(Request("phone", c, cseq), "phone", c, cseq, 0, "none", 0)
  BY FreshRequest
<1>2. ASSUME NEW q, Fresh(q, "phone", c, cseq, 0, "none", 0)
      PROVE  Fresh([q EXCEPT !.status = s], "phone", c, cseq, 0, s, 0)
  BY <1>2 DEF Fresh, Requests
<1>3. ASSUME NEW q, Fresh(q, "phone", c, cseq, 0, s, 0)
      PROVE  Fresh([q EXCEPT !.news = w], "phone", c, cseq, 0, s, w)
  BY <1>3 DEF Fresh, Requests
<1>4. ASSUME NEW q, NEW b \in BOOLEAN, Fresh(q, "phone", c, cseq, 0, s, w)
      PROVE  Fresh([q EXCEPT !.cred = b], "phone", c, cseq, 0, s, w)
  BY <1>4 DEF Fresh, Requests
<1>5. Fresh([[Request("phone", c, cseq) EXCEPT !.status = s] EXCEPT !.news = w], "phone", c, cseq, 0, s, w)
  BY <1>1, <1>2, <1>3
<1>6. Fresh([[[Request("phone", c, cseq) EXCEPT !.status = s] EXCEPT !.news = w] EXCEPT !.cred = TRUE],
            "phone", c, cseq, 0, s, w)
  BY <1>4, <1>5
<1> QED BY <1>5, <1>6 DEF NotifyOf, NotifyAgain

\* A request stays one whatever happens to it.
LEMMA RequestUpdates ==
    ASSUME NEW r \in Requests, NEW known \in BOOLEAN, NEW state \in {"trying", "completed", "terminated"},
           NEW answer \in Nat, NEW served \in {"no", "proceeding", "completed"}
    PROVE  /\ [r EXCEPT !.known = known] \in Requests
           /\ [r EXCEPT !.state = state] \in Requests
           /\ [r EXCEPT !.answer = answer] \in Requests
           /\ [r EXCEPT !.answer = answer, !.state = state] \in Requests
           /\ [r EXCEPT !.served = served] \in Requests
<1>1. [r EXCEPT !.known = known] \in Requests  BY SMT DEF Requests
<1>2. ASSUME NEW q \in Requests PROVE [q EXCEPT !.state = state] \in Requests  BY SMT DEF Requests
<1>3. [r EXCEPT !.answer = answer] \in Requests  BY SMT DEF Requests
<1>4. [r EXCEPT !.answer = answer, !.state = state] \in Requests
  <2>1. [r EXCEPT !.answer = answer, !.state = state] = [[r EXCEPT !.answer = answer] EXCEPT !.state = state]
    BY DEF Requests
  <2> QED BY <1>2, <1>3, <2>1
<1>5. [r EXCEPT !.served = served] \in Requests  BY SMT DEF Requests
<1> QED BY <1>1, <1>2, <1>3, <1>4, <1>5

\* A request that is sent comes last and changes no other.
LEMMA AppendsRequest ==
    ASSUME SubTypeOK, NEW r \in Requests, trs' = Append(trs, r)
    PROVE  /\ Len(trs) \in Nat /\ Len(trs') = Len(trs) + 1 /\ trs' \in Seq(Requests)
           /\ trs'[Len(trs) + 1] = r
           /\ \A t \in 1 .. Len(trs) : trs'[t] = trs[t]
BY AppendProperties DEF SubTypeOK

\* Forgetting changes nothing but what is known.
LEMMA ForgetsEach ==
    ASSUME NEW ts \in Seq(Requests), NEW by, NEW c
    PROVE  /\ Forgets(ts, by, c) \in Seq(Requests) /\ Len(Forgets(ts, by, c)) = Len(ts) /\ Len(ts) \in Nat
           /\ \A t \in 1 .. Len(ts) :
                 Forgets(ts, by, c)[t] = IF ts[t].by = by /\ ts[t].call = c THEN [ts[t] EXCEPT !.known = FALSE] ELSE ts[t]
<1> DEFINE F == Forgets(ts, by, c)
<1>1. DOMAIN ts = 1 .. Len(ts) /\ Len(ts) \in Nat /\ \A t \in 1 .. Len(ts) : ts[t] \in Requests
  BY ElementOfSeq
<1>2. /\ DOMAIN F = 1 .. Len(ts)
      /\ \A t \in 1 .. Len(ts) : F[t] = IF ts[t].by = by /\ ts[t].call = c THEN [ts[t] EXCEPT !.known = FALSE] ELSE ts[t]
  BY <1>1 DEF Forgets
<1>3. \A t \in 1 .. Len(ts) : F[t] \in Requests
  <2>1. \A r \in Requests : [r EXCEPT !.known = FALSE] \in Requests
    BY RequestUpdates
  <2>2. \A t \in 1 .. Len(ts) : F[t] = ts[t] \/ F[t] = [ts[t] EXCEPT !.known = FALSE]
    BY <1>2
  <2> QED BY <1>1, <2>1, <2>2
<1>4. F \in [1 .. Len(ts) -> Requests]
  BY <1>2, <1>3 DEF Forgets
<1>5. F \in Seq(Requests)
  BY <1>1, <1>4, SeqDef
<1>6. Len(F) = Len(ts)
  BY <1>1, <1>2, <1>5, LenProperties
<1> QED BY <1>1, <1>2, <1>5, <1>6

\* What is known of the state, piece by piece.
LEMMA Typed ==
    ASSUME SubTypeOK
    PROVE  /\ Len(trs) \in Nat /\ DOMAIN trs = 1 .. Len(trs) /\ Calls \subseteq Nat
           /\ \A t \in 1 .. Len(trs) : trs[t] \in Requests
           /\ \A c \in DOMAIN js : js[c] \in Subscribe
           /\ \A c \in DOMAIN jn : jn[c] \in Notifier
           /\ \A m \in post : m[1] \in 1 .. Len(trs) /\ m[2] \in Nat /\ m = <<m[1], m[2]>>
BY ElementOfSeq, SubscriptionConstants DEF SubTypeOK, Calls

\* One request changes: all others stay.
LEMMA ChangesOne ==
    ASSUME SubTypeOK, NEW t \in 1 .. Len(trs), NEW r \in Requests
    PROVE  LET now == [trs EXCEPT ![t] = r] IN
           /\ now \in Seq(Requests) /\ Len(now) = Len(trs)
           /\ \A u \in 1 .. Len(trs) : now[u] = IF u = t THEN r ELSE trs[u]
BY ExceptSeq, Typed DEF SubTypeOK

\* A subscription looks at the first of its dialogs only.
LEMMA HeadIsFirst ==
    ASSUME NEW s \in Seq(Dialogue), s # << >>
    PROVE  Head(s) = s[1] /\ s[1] \in Dialogue /\ Len(s) >= 1 /\ Len(s) \in Nat /\ 1 \in DOMAIN s
BY HeadTailProperties, LenProperties, ElementOfSeq

-----------------------------------------------------------------------------
(* What no step changes of a request. *)

\* A request stays what it asks or tells.
Keeps(t) ==
    /\ trs'[t].by = trs[t].by /\ trs'[t].call = trs[t].call /\ trs'[t].cseq = trs[t].cseq
    /\ trs'[t].expires = trs[t].expires /\ trs'[t].status = trs[t].status /\ trs'[t].news = trs[t].news

Kept == Len(trs') = Len(trs) /\ \A t \in 1 .. Len(trs) : Keeps(t)

\* As long as none is added, the requests of each side and call stay what they are.
LEMMA KeptSent ==
    ASSUME SubTypeOK, Numbered, OneCSeqEach, Kept
    PROVE  /\ \A by, c : Sent(by, c)' = Sent(by, c)
           /\ Numbered' /\ OneCSeqEach'
<1>1. \A by, c : Sent(by, c)' = Sent(by, c)
  BY DEF Sent, Kept, Keeps
<1>2. Firsts' = Firsts
  BY DEF Firsts, Kept, Keeps
<1>3. Numbered' /\ OneCSeqEach'
  BY <1>2 DEF Numbered, OneCSeqEach, Kept, Keeps
<1> QED BY <1>1, <1>3

\* A request more, of an old call and with a higher CSeq than any before.
LEMMA AddedSent ==
    ASSUME SubTypeOK, Numbered, OneCSeqEach, NEW r \in Requests, trs' = Append(trs, r),
           r.by = "watcher" =>
               /\ r.cseq > 1
               /\ \E t \in Sent("watcher", r.call) : TRUE
               /\ \A t \in Sent("watcher", r.call) : trs[t].cseq < r.cseq
    PROVE  /\ \A by, c : Sent(by, c)' = Sent(by, c) \cup (IF r.by = by /\ r.call = c THEN {Len(trs) + 1} ELSE {})
           /\ Numbered' /\ OneCSeqEach'
<1>1. /\ Len(trs) \in Nat /\ Len(trs') = Len(trs) + 1
      /\ trs'[Len(trs) + 1] = r /\ \A t \in 1 .. Len(trs) : trs'[t] = trs[t]
      /\ 1 .. Len(trs) + 1 = (1 .. Len(trs)) \cup {Len(trs) + 1}
      /\ \A t \in 1 .. Len(trs) : trs[t] \in Requests
  BY AppendsRequest, Typed
<1>2. \A by, c : Sent(by, c)' = Sent(by, c) \cup (IF r.by = by /\ r.call = c THEN {Len(trs) + 1} ELSE {})
  BY <1>1 DEF Sent
<1>3. Firsts' = Firsts
  BY <1>1 DEF Firsts
<1>4. Numbered'
  BY <1>1, <1>3 DEF Numbered, Sent, Requests
<1>5. OneCSeqEach'
  BY <1>1 DEF OneCSeqEach, Sent, Requests
<1> QED BY <1>2, <1>4, <1>5

-----------------------------------------------------------------------------
(* The steps. *)

\* Nobody has sent anything.
LEMMA SubInitially == SubscriptionsInit => SubInv
<1> SUFFICES ASSUME SubscriptionsInit PROVE SubInv
  OBVIOUS
<1>1. /\ DOMAIN js = {} /\ DOMAIN jn = {} /\ trs = << >> /\ Len(trs) = 0 /\ 1 .. Len(trs) = {} /\ post = {} /\ inbox = {}
      /\ seen = [heard |-> [c \in Calls |-> 0], news |-> 0, trouble |-> 0]
  BY DEF SubscriptionsInit
<1>2. SubTypeOK
  <2>1. js \in [DOMAIN js -> Subscribe] /\ jn \in [DOMAIN jn -> Notifier]
    BY DEF SubscriptionsInit
  <2>2. trs \in Seq(Requests)
    BY <1>1, EmptySeq
  <2> QED BY <1>1, <2>1, <2>2 DEF SubTypeOK
<1>3. Numbered /\ OneCSeqEach
  BY <1>1 DEF Numbered, OneCSeqEach
<1>4. Watching /\ Subscribed /\ LastNews /\ OneOpen /\ NewsTold /\ HeardWasTold
  BY <1>1 DEF Watching, Subscribed, LastNews, OneOpen, NewsTold, HeardWasTold
<1>5. Answers /\ OnItsWay /\ Unwatched /\ Farewell /\ Delivered /\ Served
  BY <1>1 DEF Answers, OnItsWay, Unwatched, Farewell, Delivered, Served, Sent
<1> QED BY <1>2, <1>3, <1>4, <1>5 DEF SubInv

\* A call that nobody has started has no request of either side.
LEMMA FreshCall ==
    ASSUME SubInv
    PROVE  /\ IsFiniteSet(Firsts) /\ Cardinality(Firsts) \in Nat
           /\ Sent("watcher", Cardinality(Firsts) + 1) = {}
           /\ Sent("phone", Cardinality(Firsts) + 1) = {}
           /\ Cardinality(Firsts) + 1 \notin DOMAIN js
           /\ Cardinality(Firsts) + 1 \notin DOMAIN jn
<1> DEFINE c == Cardinality(Firsts) + 1
<1>1. IsFiniteSet(Firsts) /\ Cardinality(Firsts) \in Nat
  <2>1. IsFiniteSet(1 .. Len(trs))
    BY Typed, FS_Interval DEF SubInv
  <2> QED BY <2>1, FS_Subset, FS_CardinalityType DEF Firsts
<1>2. Sent("watcher", c) = {}
  <2>1. \A t \in 1 .. Len(trs) : trs[t] \in Requests /\ trs[t].call \in Int
    BY Typed DEF SubInv, Requests
  <2> QED BY <1>1, <2>1 DEF SubInv, Numbered, Sent
<1>3. Sent("phone", c) = {}
  BY <1>2, Typed DEF SubInv, Served, Reached, Sent, Requests
<1>4. c \notin DOMAIN js
  BY <1>2 DEF SubInv, Watching, Latest
<1>5. c \notin DOMAIN jn
  BY <1>2 DEF SubInv, Subscribed
<1> QED BY <1>1, <1>2, <1>3, <1>4, <1>5

\* A request more under way is answered by nobody yet.
LEMMA SendingKeeps ==
    ASSUME SubInv, NEW r \in Requests, trs' = Append(trs, r), post' = post \cup {<<Len(trs) + 1, 0>>}, inbox' = inbox,
           r.state = "trying", r.answer = 0, r.served = "no", seen'.trouble = seen.trouble
    PROVE  /\ Answers' /\ OnItsWay' /\ Delivered'
           /\ \A d : Reached(d)' = Reached(d)
           /\ \A d : GivenUp(d) => GivenUp(d)'
           /\ post' \subseteq (1 .. Len(trs')) \X Nat /\ inbox' \subseteq 1 .. Len(trs')
<1>1. PICK n \in Nat : n = Len(trs)
  BY Typed DEF SubInv
<1>2. /\ Len(trs') = n + 1 /\ trs'[n + 1] = r /\ \A t \in 1 .. n : trs'[t] = trs[t] /\ trs[t] \in Requests
      /\ 1 .. n + 1 = (1 .. n) \cup {n + 1} /\ n + 1 \notin 1 .. n
      /\ \A m \in post : m[1] \in 1 .. n /\ m[2] \in Nat /\ m = <<m[1], m[2]>>
      /\ inbox \subseteq 1 .. n
  BY <1>1, AppendsRequest, Typed DEF SubInv, SubTypeOK
<1>3. Answers'
  <2>0. Answers
    BY DEF SubInv
  <2>1. \A t \in inbox' : trs'[t].by = "watcher"
    BY <2>0, <1>2 DEF Answers
  <2>2. \A m \in post' : (m \in post /\ trs'[m[1]] = trs[m[1]]) \/ m[2] = 0
    BY <1>1, <1>2
  <2>3. ASSUME NEW m \in post'
        PROVE  /\ trs'[m[1]].by = "watcher" /\ m[2] \in 1 .. 299 => trs'[m[1]].served # "no"
               /\ trs'[m[1]].by = "phone" => m[2] \in {0, 200, 407, 481}
    <3>1. CASE m \in post /\ trs'[m[1]] = trs[m[1]]  BY <3>1, <2>0 DEF Answers
    <3>2. CASE m[2] = 0  BY <3>2
    <3>3. (m \in post /\ trs'[m[1]] = trs[m[1]]) \/ m[2] = 0  BY <2>2
    <3> QED BY <3>1, <3>2, <3>3, Zenon
  <2>5. \A t \in 1 .. n + 1 : trs'[t].by = "phone" => trs'[t].answer \in {0, 200, 407, 481}
    BY <2>0, <1>1, <1>2 DEF Answers
  <2>6. \A t \in 1 .. n + 1 : trs'[t].state = "completed" => trs'[t].answer # 0
    BY <2>0, <1>1, <1>2 DEF Answers
  <2> QED BY <1>2, <2>1, <2>3, <2>5, <2>6 DEF Answers
<1>4. OnItsWay'
  BY <1>1, <1>2 DEF SubInv, OnItsWay
<1>5. Delivered'
  <2> SUFFICES ASSUME seen.trouble = 0, NEW t \in 1 .. n + 1, trs'[t].by = "phone", trs'[t].state = "trying"
               PROVE  \E m \in post' : m[1] = t
    BY <1>2 DEF Delivered
  <2>1. CASE t = n + 1
    <3>1. <<n + 1, 0>> \in post' /\ <<n + 1, 0>>[1] = n + 1
      BY <1>1
    <3> QED BY <2>1, <3>1
  <2>2. CASE t \in 1 .. n
    <3>1. \E m \in post : m[1] = t
      BY <1>1, <1>2, <2>2 DEF SubInv, Delivered
    <3> QED BY <3>1
  <2> QED BY <1>2, <2>1, <2>2
<1>6. ASSUME NEW d PROVE Reached(d)' = Reached(d) /\ (GivenUp(d) => GivenUp(d)')
  <2>1. Sent("watcher", d) \subseteq Sent("watcher", d)' /\ Sent("watcher", d)' \subseteq Sent("watcher", d) \cup {n + 1}
    BY <1>1, <1>2 DEF Sent
  <2>2. \A t \in Sent("watcher", d) : trs'[t] = trs[t]
    BY <1>1, <1>2 DEF Sent
  <2> QED BY <1>2, <2>1, <2>2 DEF Reached, GivenUp
<1>7. post' \subseteq (1 .. Len(trs')) \X Nat /\ inbox' \subseteq 1 .. Len(trs')
  BY <1>1, <1>2
<1> QED BY <1>3, <1>4, <1>5, <1>6, <1>7

\* A new call: its number is one nobody has used, so that its SUBSCRIBE is its first.
LEMMA InitialRequestStep ==
    ASSUME SubInv, eXosip_subscribe_send_initial_request
    PROVE  SubInv'
<1>1. PICK n \in Nat : n = Len(trs) /\ DOMAIN trs = 1 .. n
  BY Typed DEF SubInv
<1>2. PICK c : c = Cardinality(Firsts) + 1
  OBVIOUS
<1>3. PICK r : r = SubscribeOf(c, 1, 600)
  OBVIOUS
<1>4. /\ c \in Calls /\ trs' = Append(trs, r) /\ post' = post \cup {<<n + 1, 0>>}
      /\ js' = With(js, c, [out |-> n + 1, dialogs |-> << >>, period |-> 600, retry |-> 0])
      /\ UNCHANGED <<jn, inbox, seen>>
  BY <1>1, <1>2, <1>3 DEF eXosip_subscribe_send_initial_request, Sends, Firsts, SubscribeOf
<1>5. /\ r \in Requests /\ r.by = "watcher" /\ r.call = c /\ r.cseq = 1 /\ r.expires = 600 /\ r.state = "trying"
      /\ r.answer = 0 /\ r.known = TRUE /\ r.served = "no"
  <2>1. Fresh(r, "watcher", c, 1, 600, "none", 0)
    BY <1>3, <1>4, FreshSubscribe
  <2> QED BY <2>1 DEF Fresh
<1>6. /\ Len(trs') = n + 1 /\ trs' \in Seq(Requests) /\ trs'[n + 1] = r /\ \A t \in 1 .. n : trs'[t] = trs[t]
      /\ 1 .. n + 1 = (1 .. n) \cup {n + 1} /\ n + 1 \notin 1 .. n /\ \A t \in 1 .. n : trs[t] \in Requests
  BY <1>1, <1>4, <1>5, AppendsRequest, Typed DEF SubInv
<1>7. /\ Sent("watcher", c) = {} /\ Sent("phone", c) = {} /\ c \notin DOMAIN js /\ c \notin DOMAIN jn
      /\ IsFiniteSet(Firsts) /\ Cardinality(Firsts) \in Nat
  BY <1>2, FreshCall
<1>8. \A by, d : Sent(by, d)' = IF by = "watcher" /\ d = c THEN {n + 1} ELSE Sent(by, d)
  BY <1>1, <1>5, <1>6, <1>7 DEF Sent
<1>9. /\ DOMAIN js' = DOMAIN js \cup {c} /\ \A d \in DOMAIN js : js'[d] = js[d]
      /\ js'[c] = [out |-> n + 1, dialogs |-> << >>, period |-> 600, retry |-> 0]
  BY <1>4, <1>7 DEF With
<1>10. SubTypeOK'
  <2>1. js' \in [DOMAIN js' -> Subscribe]
    <3>1. << >> \in Seq(Dialogue)
      BY EmptySeq
    <3>2. js'[c] \in Subscribe
      BY <1>9, <1>1, <3>1 DEF Subscribe
    <3>3. \A d \in DOMAIN js' : js'[d] \in Subscribe
      BY <1>9, <3>2, Typed DEF SubInv
    <3> QED BY <1>4, <3>3 DEF With
  <2>2. post' \subseteq (1 .. n + 1) \X Nat
    BY <1>1, <1>4, <1>6 DEF SubInv, SubTypeOK
  <2> QED BY <1>1, <1>4, <1>6, <1>9, <2>1, <2>2 DEF SubInv, SubTypeOK
<1>11. Numbered'
  <2>1. Firsts' = Firsts \cup {n + 1}
    BY <1>1, <1>5, <1>6 DEF Firsts
  <2>2. Cardinality(Firsts') = Cardinality(Firsts) + 1
    <3>1. n + 1 \notin Firsts
      BY <1>1, <1>6 DEF Firsts
    <3> QED BY <1>7, <2>1, <3>1, FS_AddElement
  <2>3. \A t \in 1 .. n : trs[t].call \in Nat
    BY <1>6, Typed, ZenonT(60) DEF SubInv, Requests
  <2> QED BY <1>1, <1>2, <1>5, <1>6, <1>7, <2>2, <2>3 DEF SubInv, Numbered
<1>12. OneCSeqEach'
  BY <1>1, <1>5, <1>6, <1>7 DEF SubInv, OneCSeqEach, Sent
<1>13. Watching'
  <2> SUFFICES ASSUME NEW d \in DOMAIN js'
               PROVE  /\ js'[d].out \in 1 .. Len(trs') /\ Len(js'[d].dialogs) <= 1
                      /\ Latest(d, eXosip_find_last_out_subscribe(d))'
                      /\ js'[d].dialogs # << >> =>
                           /\ js'[d].dialogs[1].local_cseq = trs'[eXosip_find_last_out_subscribe(d)'].cseq
                           /\ js'[d].dialogs[1].out # js'[d].out
                      /\ \A t \in Sent("watcher", d)' : trs'[t].known
    BY DEF Watching
  <2>1. CASE d = c
    BY <2>1, <1>1, <1>5, <1>6, <1>8, <1>9 DEF Latest, eXosip_find_last_out_subscribe
  <2>2. CASE d # c
    <3>1. d \in DOMAIN js /\ js'[d] = js[d] /\ Sent("watcher", d)' = Sent("watcher", d)
          /\ eXosip_find_last_out_subscribe(d)' = eXosip_find_last_out_subscribe(d)
      BY <2>2, <1>8, <1>9 DEF eXosip_find_last_out_subscribe
    <3> QED BY <3>1, <1>1, <1>6 DEF SubInv, Watching, Latest, Closed, Sent
  <2> QED BY <2>1, <2>2
<1>14. Subscribed'
  BY <1>1, <1>4, <1>6, <1>7, <1>8 DEF SubInv, Subscribed, Sent
<1>15. LastNews' /\ NewsTold' /\ HeardWasTold'
  BY <1>1, <1>4, <1>5, <1>6, <1>8 DEF SubInv, LastNews, NewsTold, HeardWasTold, Sent
<1>16. OneOpen' /\ Farewell'
  BY <1>1, <1>4, <1>5, <1>6, <1>7, <1>9 DEF SubInv, OneOpen, Farewell, Closed, Sent
<1>17. /\ Answers' /\ OnItsWay' /\ Delivered'
       /\ \A d : Reached(d)' = Reached(d)
       /\ \A d : GivenUp(d) => GivenUp(d)'
  BY <1>1, <1>4, <1>5, SendingKeeps
<1>18. Unwatched'
  BY <1>1, <1>4, <1>5, <1>6, <1>7, <1>9, Typed DEF SubInv, Unwatched, Sent
<1>19. Served'
  <2>1. ~Reached(c)
    BY <1>7 DEF Reached
  <2> QED BY <1>4, <1>7, <1>8, <1>9, <1>17, <2>1 DEF SubInv, Served
<1> QED BY <1>10, <1>11, <1>12, <1>13, <1>14, <1>15, <1>16, <1>17, <1>18, <1>19 DEF SubInv

\* The subscription s asks for the request t next.
AsksWith(s, t) == t = IF s.dialogs = << >> \/ Head(s.dialogs).out = 0 THEN s.out ELSE Head(s.dialogs).out

\* A SUBSCRIBE more of an old call, with the next CSeq, when the last one has its answer.
LEMMA WatcherSends ==
    ASSUME SubInv, NEW c \in DOMAIN js, NEW e, NEW r, NEW s \in Subscribe,
           Closed(eXosip_find_last_out_subscribe(c)),
           Fresh(r, "watcher", c, trs[eXosip_find_last_out_subscribe(c)].cseq + 1, e, "none", 0),
           trs' = Append(trs, r), post' = post \cup {<<Len(trs) + 1, 0>>}, UNCHANGED <<jn, inbox, seen>>,
           js' \in [DOMAIN js -> Subscribe], js'[c] = s, \A d \in DOMAIN js : d # c => js'[d] = js[d],
           s.out \in 1 .. Len(trs) + 1, Len(s.dialogs) <= 1, AsksWith(s, Len(trs) + 1),
           s.dialogs # << >> => /\ js[c].dialogs # << >>
                                /\ s.dialogs[1].local_cseq = r.cseq /\ s.dialogs[1].out # s.out
    PROVE  SubInv'
<1>1. PICK n \in Nat : n = Len(trs) /\ DOMAIN trs = 1 .. n
  BY Typed DEF SubInv
<1>2. PICK t : /\ t = eXosip_find_last_out_subscribe(c) /\ t \in 1 .. n /\ Latest(c, t) /\ t \in Sent("watcher", c)
               /\ Closed(t) /\ trs[t].cseq \in Nat /\ trs[t].cseq >= 1 /\ trs[t].by = "watcher"
  BY <1>1, Typed DEF SubInv, Watching, Latest, Sent, Numbered, Requests
<1>3. /\ r \in Requests /\ r.by = "watcher" /\ r.call = c /\ r.cseq = trs[t].cseq + 1 /\ r.state = "trying"
      /\ r.answer = 0 /\ r.known = TRUE /\ r.served = "no"
  BY <1>2 DEF Fresh
<1>4. /\ Len(trs') = n + 1 /\ trs' \in Seq(Requests) /\ trs'[n + 1] = r /\ \A u \in 1 .. n : trs'[u] = trs[u]
      /\ 1 .. n + 1 = (1 .. n) \cup {n + 1} /\ n + 1 \notin 1 .. n /\ \A u \in 1 .. n : trs[u] \in Requests
  BY <1>1, <1>3, AppendsRequest, Typed DEF SubInv
<1>5. \A u \in Sent("watcher", c) : trs[u].cseq <= trs[t].cseq /\ Closed(u) /\ u \in 1 .. n /\ trs[u].cseq \in Nat
  <2>1. ASSUME NEW u \in Sent("watcher", c) PROVE u \in 1 .. n /\ trs[u].cseq \in Nat
    BY <1>1, <1>4 DEF Sent, Requests
  <2>2. ASSUME NEW u \in Sent("watcher", c), u # t PROVE trs[u].cseq < trs[t].cseq /\ Closed(u)
    BY <1>2, <2>2 DEF Latest
  <2>3. ASSUME NEW u \in Sent("watcher", c) PROVE trs[u].cseq <= trs[t].cseq /\ Closed(u)
    <3>1. CASE u = t
      <4>1. Closed(t) /\ trs[t].cseq \in Nat
        BY <1>2
      <4> QED BY <3>1, <4>1
    <3>2. CASE u # t
      <4>1. trs[t].cseq \in Nat
        BY <1>2
      <4> QED BY <2>1, <2>2, <3>2, <4>1
    <3> QED BY <3>1, <3>2
  <2> QED BY <2>1, <2>3
<1>6. /\ \A by, d : Sent(by, d)' = Sent(by, d) \cup (IF r.by = by /\ r.call = d THEN {Len(trs) + 1} ELSE {})
      /\ Numbered' /\ OneCSeqEach'
  <2>1. r.cseq > 1 /\ \A u \in Sent("watcher", r.call) : trs[u].cseq < r.cseq
    BY <1>2, <1>3, <1>5
  <2> QED BY <1>2, <1>3, <2>1, AddedSent DEF SubInv
<1>7. DOMAIN js' = DOMAIN js /\ js'[c] = s /\ \A d \in DOMAIN js : d # c => js'[d] = js[d]
  OBVIOUS
<1>8. /\ Answers' /\ OnItsWay' /\ Delivered'
      /\ \A d : Reached(d)' = Reached(d)
      /\ \A d : GivenUp(d) => GivenUp(d)'
      /\ post' \subseteq (1 .. Len(trs')) \X Nat /\ inbox' \subseteq 1 .. Len(trs')
  BY <1>3, SendingKeeps
<1>9. SubTypeOK'
  <2>1. js' \in [DOMAIN js' -> Subscribe]
    BY <1>7 DEF SubInv, SubTypeOK
  <2> QED BY <1>4, <1>7, <1>8, <2>1 DEF SubInv, SubTypeOK
<1>10. Watching'
  <2> SUFFICES ASSUME NEW d \in DOMAIN js
               PROVE  /\ js'[d].out \in 1 .. Len(trs') /\ Len(js'[d].dialogs) <= 1
                      /\ Latest(d, eXosip_find_last_out_subscribe(d))'
                      /\ js'[d].dialogs # << >> =>
                           /\ js'[d].dialogs[1].local_cseq = trs'[eXosip_find_last_out_subscribe(d)'].cseq
                           /\ js'[d].dialogs[1].out # js'[d].out
                      /\ \A u \in Sent("watcher", d)' : trs'[u].known
    BY <1>7 DEF Watching
  <2>1. CASE d = c
    <3>1. eXosip_find_last_out_subscribe(d)' = n + 1
      BY <2>1, <1>1, <1>7 DEF AsksWith, eXosip_find_last_out_subscribe
    <3>2. Sent("watcher", d)' = Sent("watcher", c) \cup {n + 1}
      BY <2>1, <1>1, <1>3, <1>6
    <3>3. Latest(d, n + 1)'
      <4>1. ASSUME NEW u \in Sent("watcher", c)
            PROVE  u # n + 1 /\ trs'[u].cseq < trs'[n + 1].cseq /\ Closed(u)'
        <5>1. trs'[u] = trs[u] /\ u # n + 1
          BY <1>4, <1>5
        <5>2. trs'[n + 1].cseq = trs[t].cseq + 1 /\ trs[t].cseq \in Nat
          BY <1>2, <1>3, <1>4
        <5>3. trs[u].cseq \in Nat /\ trs[u].cseq <= trs[t].cseq /\ Closed(u)
          BY <1>5
        <5> QED BY <5>1, <5>2, <5>3 DEF Closed
      <4> QED BY <3>2, <4>1 DEF Latest
    <3>4. \A u \in Sent("watcher", d)' : trs'[u].known
      BY <3>2, <1>3, <1>4, <1>5 DEF SubInv, Watching
    <3> QED BY <2>1, <3>1, <3>3, <3>4, <1>1, <1>4, <1>7
  <2>2. CASE d # c
    <3>1. js'[d] = js[d] /\ Sent("watcher", d)' = Sent("watcher", d)
          /\ eXosip_find_last_out_subscribe(d)' = eXosip_find_last_out_subscribe(d)
      BY <2>2, <1>3, <1>6, <1>7 DEF eXosip_find_last_out_subscribe
    <3> QED BY <3>1, <1>1, <1>4 DEF SubInv, Watching, Latest, Closed, Sent
  <2> QED BY <2>1, <2>2
<1>11. \A d : Sent("phone", d)' = Sent("phone", d) /\ Sent("watcher", d) \subseteq Sent("watcher", d)'
  BY <1>3, <1>6
<1>12. Subscribed'
  BY <1>1, <1>4, <1>11 DEF SubInv, Subscribed, Sent
<1>13. LastNews' /\ NewsTold' /\ HeardWasTold'
  BY <1>1, <1>3, <1>4, <1>11 DEF SubInv, LastNews, NewsTold, HeardWasTold, Sent
<1>14. OneOpen' /\ Farewell'
  BY <1>1, <1>3, <1>4, <1>7 DEF SubInv, OneOpen, Farewell, Closed
<1>15. Unwatched'
  BY <1>1, <1>3, <1>4, <1>7, Typed DEF SubInv, Unwatched
<1>16. Served'
  <2>1. \A d \in DOMAIN js : js'[d].dialogs # << >> => js[d].dialogs # << >>
    BY <1>7
  <2> QED BY <1>7, <1>8, <1>11, <2>1 DEF SubInv, Served
<1> QED BY <1>6, <1>8, <1>9, <1>10, <1>12, <1>13, <1>14, <1>15, <1>16 DEF SubInv

\* One field of a dialog changes, and nothing else.
WithPeriod(f, c, e) == [f EXCEPT ![c].period = e]
WithCSeq(f, c, k) == [f EXCEPT ![c].dialogs[1].local_cseq = k]
WithOut(f, c, o) == [f EXCEPT ![c].dialogs[1].out = o]

\* g is f but for the subscription of c, which still has the dialogs it had.
Changes(f, g, c) ==
    /\ DOMAIN g = DOMAIN f /\ g \in [DOMAIN f -> Subscribe] /\ \A d \in DOMAIN f : d # c => g[d] = f[d]
    /\ g[c].out = f[c].out /\ Len(g[c].dialogs) = Len(f[c].dialogs) /\ g[c].dialogs # << >>

\* A change of the dialog changes nothing else of the subscription.
LEMMA DialogChanges ==
    ASSUME NEW f, f \in [DOMAIN f -> Subscribe], NEW c \in DOMAIN f, f[c].dialogs # << >>,
           NEW v \in Dialogue, NEW g, g = [f EXCEPT ![c].dialogs[1] = v]
    PROVE  Changes(f, g, c) /\ g[c].dialogs[1] = v
<1>1. f[c] \in Subscribe
  OBVIOUS
<1>2. ASSUME NEW s \in Subscribe, NEW D \in Seq(Dialogue) PROVE [s EXCEPT !.dialogs = D] \in Subscribe
  BY DEF Subscribe
<1>3. f[c].dialogs \in Seq(Dialogue) /\ 1 \in DOMAIN f[c].dialogs /\ Len(f[c].dialogs) >= 1 /\ Len(f[c].dialogs) \in Nat
  BY <1>1, HeadIsFirst DEF Subscribe
<1>4. /\ [f[c].dialogs EXCEPT ![1] = v] \in Seq(Dialogue) /\ [f[c].dialogs EXCEPT ![1] = v][1] = v
      /\ Len([f[c].dialogs EXCEPT ![1] = v]) = Len(f[c].dialogs)
  BY <1>3, ExceptSeq
<1>5. g[c] = [f[c] EXCEPT !.dialogs = [f[c].dialogs EXCEPT ![1] = v]] /\ DOMAIN g = DOMAIN f
      /\ \A d \in DOMAIN f : d # c => g[d] = f[d]
  BY <1>1
<1>6. g[c] \in Subscribe
  BY <1>1, <1>2, <1>4, <1>5
<1>7. g[c].out = f[c].out /\ g[c].dialogs = [f[c].dialogs EXCEPT ![1] = v]
  BY <1>1, <1>5 DEF Subscribe
<1>8. g[c].dialogs # << >>
  BY <1>3, <1>4, <1>7, EmptySeq
<1> QED BY <1>4, <1>5, <1>6, <1>7, <1>8 DEF Changes

\* The period is none of the invariant's business.
LEMMA PeriodChanges ==
    ASSUME NEW f, f \in [DOMAIN f -> Subscribe], NEW c \in DOMAIN f, f[c].dialogs # << >>, NEW k \in Nat
    PROVE  Changes(f, WithPeriod(f, c, k), c) /\ WithPeriod(f, c, k)[c].dialogs = f[c].dialogs
<1>1. f[c] \in Subscribe
  OBVIOUS
<1>2. [f[c] EXCEPT !.period = k] \in Subscribe
  BY <1>1 DEF Subscribe
<1>3. /\ DOMAIN WithPeriod(f, c, k) = DOMAIN f /\ WithPeriod(f, c, k)[c] = [f[c] EXCEPT !.period = k]
      /\ \A d \in DOMAIN f : d # c => WithPeriod(f, c, k)[d] = f[d]
      /\ WithPeriod(f, c, k) \in [DOMAIN f -> Subscribe]
  BY <1>2 DEF WithPeriod
<1>4. WithPeriod(f, c, k)[c].out = f[c].out /\ WithPeriod(f, c, k)[c].dialogs = f[c].dialogs
  BY <1>1, <1>3 DEF Subscribe
<1> QED BY <1>3, <1>4 DEF Changes

\* The dialog counts its requests,
LEMMA CSeqChanges ==
    ASSUME NEW f, f \in [DOMAIN f -> Subscribe], NEW c \in DOMAIN f, f[c].dialogs # << >>, NEW k \in Nat
    PROVE  /\ Changes(f, WithCSeq(f, c, k), c)
           /\ WithCSeq(f, c, k)[c].dialogs[1].local_cseq = k
<1>1. f[c].dialogs[1] \in Dialogue
  BY HeadIsFirst DEF Subscribe
<1>2. WithCSeq(f, c, k) = [f EXCEPT ![c].dialogs[1] = [f[c].dialogs[1] EXCEPT !.local_cseq = k]]
  BY DEF WithCSeq
<1>3. [f[c].dialogs[1] EXCEPT !.local_cseq = k] \in Dialogue /\ [f[c].dialogs[1] EXCEPT !.local_cseq = k].local_cseq = k
  BY <1>1 DEF Dialogue
<1> DEFINE v == [f[c].dialogs[1] EXCEPT !.local_cseq = k]
           g == [f EXCEPT ![c].dialogs[1] = v]
<1>4. v \in Dialogue
  BY <1>3
<1> HIDE DEF v
<1>5. Changes(f, g, c) /\ g[c].dialogs[1] = v
  BY <1>4, DialogChanges
<1> QED BY <1>2, <1>3, <1>5 DEF v

\* and knows the latest of them.
LEMMA OutChanges ==
    ASSUME NEW f, f \in [DOMAIN f -> Subscribe], NEW c \in DOMAIN f, f[c].dialogs # << >>, NEW k \in Nat
    PROVE  /\ Changes(f, WithOut(f, c, k), c)
           /\ WithOut(f, c, k)[c].dialogs[1].local_cseq = f[c].dialogs[1].local_cseq
           /\ WithOut(f, c, k)[c].dialogs[1].out = k
<1>1. f[c].dialogs[1] \in Dialogue
  BY HeadIsFirst DEF Subscribe
<1>2. WithOut(f, c, k) = [f EXCEPT ![c].dialogs[1] = [f[c].dialogs[1] EXCEPT !.out = k]]
  BY DEF WithOut
<1>3. /\ [f[c].dialogs[1] EXCEPT !.out = k] \in Dialogue /\ [f[c].dialogs[1] EXCEPT !.out = k].out = k
      /\ [f[c].dialogs[1] EXCEPT !.out = k].local_cseq = f[c].dialogs[1].local_cseq
  BY <1>1 DEF Dialogue
<1> DEFINE v == [f[c].dialogs[1] EXCEPT !.out = k]
           g == [f EXCEPT ![c].dialogs[1] = v]
<1>4. v \in Dialogue
  BY <1>3
<1> HIDE DEF v
<1>5. Changes(f, g, c) /\ g[c].dialogs[1] = v
  BY <1>4, DialogChanges
<1> QED BY <1>2, <1>3, <1>5 DEF v

\* What is known of a subscription that has a dialog.
LEMMA DialogKnown ==
    ASSUME SubInv, NEW c \in DOMAIN js, NEW t, t = eXosip_find_last_out_subscribe(c)
    PROVE  /\ js \in [DOMAIN js -> Subscribe] /\ js[c] \in Subscribe /\ c \in Calls /\ Len(trs) \in Nat
           /\ js[c].out \in 1 .. Len(trs) /\ Len(js[c].dialogs) <= 1 /\ js[c].dialogs \in Seq(Dialogue)
           /\ t \in 1 .. Len(trs) /\ trs[t] \in Requests /\ trs[t].cseq \in Nat
           /\ js[c].dialogs # << >> =>
                /\ Head(js[c].dialogs) = js[c].dialogs[1] /\ js[c].dialogs[1] \in Dialogue /\ Len(js[c].dialogs) = 1
                /\ js[c].dialogs[1].local_cseq = trs[t].cseq /\ js[c].dialogs[1].out # js[c].out
<1>1. js \in [DOMAIN js -> Subscribe] /\ js[c] \in Subscribe /\ c \in Calls /\ Len(trs) \in Nat
  BY Typed DEF SubInv, SubTypeOK
<1>2. /\ js[c].out \in 1 .. Len(trs) /\ Len(js[c].dialogs) <= 1 /\ Latest(c, t)
      /\ js[c].dialogs # << >> => js[c].dialogs[1].local_cseq = trs[t].cseq /\ js[c].dialogs[1].out # js[c].out
  BY DEF SubInv, Watching
<1>3. js[c].dialogs \in Seq(Dialogue)
  BY <1>1 DEF Subscribe
<1>4. t \in 1 .. Len(trs) /\ trs[t] \in Requests
  BY <1>2, Typed DEF SubInv, Latest, Sent
<1>5. trs[t].cseq \in Nat
  BY <1>4 DEF Requests
<1>6. ASSUME js[c].dialogs # << >>
      PROVE  Head(js[c].dialogs) = js[c].dialogs[1] /\ js[c].dialogs[1] \in Dialogue /\ Len(js[c].dialogs) = 1
  <2>1. Head(js[c].dialogs) = js[c].dialogs[1] /\ js[c].dialogs[1] \in Dialogue /\ Len(js[c].dialogs) >= 1
        /\ Len(js[c].dialogs) \in Nat
    BY <1>3, <1>6, HeadIsFirst
  <2>2. \A x \in Nat : x <= 1 /\ x >= 1 => x = 1
    OBVIOUS
  <2>3. Len(js[c].dialogs) <= 1
    BY <1>2
  <2> QED BY <2>1, <2>2, <2>3, Zenon
<1> QED BY <1>1, <1>2, <1>3, <1>4, <1>5, <1>6

\* Renewing is refused while the last SUBSCRIBE is open: the new one is the only one.
LEMMA RefreshStep ==
    ASSUME SubInv, NEW c \in DOMAIN js, NEW expires \in {0, 600}, eXosip_subscribe_refresh(c, expires)
    PROVE  SubInv'
<1>1. PICK t : t = eXosip_find_last_out_subscribe(c)
  OBVIOUS
<1>2. Closed(t) /\ js[c].dialogs # << >>
  BY <1>1 DEF eXosip_subscribe_refresh
<1>3. /\ js \in [DOMAIN js -> Subscribe] /\ js[c] \in Subscribe /\ c \in Calls /\ Len(trs) \in Nat
      /\ js[c].out \in 1 .. Len(trs) /\ trs[t].cseq \in Nat
      /\ Head(js[c].dialogs) = js[c].dialogs[1] /\ js[c].dialogs[1] \in Dialogue /\ Len(js[c].dialogs) = 1
      /\ js[c].dialogs[1].local_cseq = trs[t].cseq /\ js[c].dialogs[1].out # js[c].out
  BY <1>1, <1>2, DialogKnown
<1>4. PICK k \in Nat : k = trs[t].cseq + 1
  BY <1>3
<1>5. PICK r : r = SubscribeOf(c, k, expires)
  OBVIOUS
<1>6. Head(js[c].dialogs).local_cseq + 1 = k
  BY <1>3, <1>4
<1>7. /\ trs' = Append(trs, r) /\ post' = post \cup {<<Len(trs) + 1, 0>>} /\ UNCHANGED <<jn, inbox, seen>>
      /\ js' = WithOut(WithCSeq(WithPeriod(js, c, expires), c, k), c, Len(trs) + 1)
  BY <1>5, <1>6 DEF eXosip_subscribe_refresh, Sends, SubscribeOf, WithOut, WithCSeq, WithPeriod
<1> DEFINE f == WithPeriod(js, c, expires)
           g == WithCSeq(f, c, k)
<1>8. Changes(js, f, c) /\ f[c].dialogs = js[c].dialogs
  BY <1>2, <1>3, PeriodChanges
<1> HIDE DEF f
<1>9. f \in [DOMAIN f -> Subscribe] /\ c \in DOMAIN f /\ f[c].dialogs # << >>
  BY <1>8 DEF Changes
<1>10. Changes(f, g, c) /\ g[c].dialogs[1].local_cseq = k
  BY <1>9, CSeqChanges
<1> HIDE DEF g
<1>11. g \in [DOMAIN g -> Subscribe] /\ c \in DOMAIN g /\ g[c].dialogs # << >>
  BY <1>9, <1>10 DEF Changes
<1>12. js' = WithOut(g, c, Len(trs) + 1)
  BY <1>7 DEF f, g
<1>13. Len(trs) + 1 \in Nat
  BY <1>3
<1>14. Changes(g, js', c) /\ js'[c].dialogs[1].local_cseq = k /\ js'[c].dialogs[1].out = Len(trs) + 1
  BY <1>10, <1>11, <1>12, <1>13, OutChanges
<1>15. /\ js' \in [DOMAIN js -> Subscribe] /\ \A d \in DOMAIN js : d # c => js'[d] = js[d]
       /\ js'[c].out = js[c].out /\ Len(js'[c].dialogs) = 1 /\ js'[c].dialogs # << >>
  BY <1>3, <1>8, <1>10, <1>14 DEF Changes
<1>16. js'[c] \in Subscribe /\ Head(js'[c].dialogs) = js'[c].dialogs[1]
  BY <1>15, HeadIsFirst DEF Subscribe
<1>17. Fresh(r, "watcher", c, k, expires, "none", 0)
  BY <1>3, <1>5, FreshSubscribe
<1>18. Fresh(r, "watcher", c, trs[t].cseq + 1, expires, "none", 0) /\ r.cseq = k
  BY <1>4, <1>17 DEF Fresh
<1>19. AsksWith(js'[c], Len(trs) + 1)
  BY <1>3, <1>14, <1>15, <1>16 DEF AsksWith
<1>20. js'[c].out \in 1 .. Len(trs) + 1 /\ js'[c].dialogs[1].out # js'[c].out
  BY <1>3, <1>14, <1>15
<1>21. Closed(eXosip_find_last_out_subscribe(c))
       /\ Fresh(r, "watcher", c, trs[eXosip_find_last_out_subscribe(c)].cseq + 1, expires, "none", 0)
  BY <1>1, <1>2, <1>18
<1>22. Len(js'[c].dialogs) <= 1 /\ js'[c].dialogs[1].local_cseq = r.cseq
  BY <1>14, <1>15, <1>18
<1> QED BY <1>2, <1>7, <1>15, <1>16, <1>19, <1>20, <1>21, <1>22, WatcherSends, ZenonT(60)

\* Trying again counts twice: as a request of the dialog and as a try.
LEMMA RetriedDialog ==
    ASSUME NEW d \in Dialogue, NEW o \in Nat
    PROVE  Retried(d, o) \in Dialogue /\ Retried(d, o).local_cseq = d.local_cseq + 1 /\ Retried(d, o).out = o
<1>1. PICK k \in Nat, m \in Nat : k = d.local_cseq + 1 /\ m = d.retry + 1
  BY DEF Dialogue
<1>2. Retried(d, o) = [[[d EXCEPT !.local_cseq = k] EXCEPT !.retry = m] EXCEPT !.out = o]
  BY <1>1 DEF Dialogue, Retried
<1>3. [d EXCEPT !.local_cseq = k] \in Dialogue /\ [d EXCEPT !.local_cseq = k].local_cseq = k
  BY DEF Dialogue
<1>4. ASSUME NEW e \in Dialogue, e.local_cseq = k
      PROVE  [e EXCEPT !.retry = m] \in Dialogue /\ [e EXCEPT !.retry = m].local_cseq = k
  BY <1>4 DEF Dialogue
<1>5. ASSUME NEW e \in Dialogue, e.local_cseq = k
      PROVE  /\ [e EXCEPT !.out = o] \in Dialogue /\ [e EXCEPT !.out = o].local_cseq = k
             /\ [e EXCEPT !.out = o].out = o
  BY <1>5 DEF Dialogue
<1>6. /\ [[d EXCEPT !.local_cseq = k] EXCEPT !.retry = m] \in Dialogue
      /\ [[d EXCEPT !.local_cseq = k] EXCEPT !.retry = m].local_cseq = k
  BY <1>3, <1>4
<1> QED BY <1>1, <1>2, <1>5, <1>6

\* The request that is tried again is the latest, be it the one that started the
\* subscription or one of its dialog: the next CSeq is new to the call.
LEMMA CredentialStep ==
    ASSUME SubInv, NEW c \in DOMAIN js, _eXosip_subscribe_send_request_with_credential(c)
    PROVE  SubInv'
<1>1. PICK t : t = eXosip_find_last_out_subscribe(c)
  OBVIOUS
<1>2. Closed(t)
  BY <1>1 DEF _eXosip_subscribe_send_request_with_credential, MayRetry, Challenged
<1>3. /\ js \in [DOMAIN js -> Subscribe] /\ js[c] \in Subscribe /\ c \in Calls /\ Len(trs) \in Nat
      /\ js[c].out \in 1 .. Len(trs) /\ trs[t].cseq \in Nat /\ trs[t].expires \in {0, 600}
      /\ Len(js[c].dialogs) <= 1 /\ js[c].dialogs \in Seq(Dialogue)
      /\ js[c].dialogs # << >> =>
            /\ Head(js[c].dialogs) = js[c].dialogs[1] /\ js[c].dialogs[1] \in Dialogue /\ Len(js[c].dialogs) = 1
            /\ js[c].dialogs[1].local_cseq = trs[t].cseq /\ js[c].dialogs[1].out # js[c].out
  BY <1>1, DialogKnown DEF Requests
<1> DEFINE n == Len(trs) + 1
           D == js[c].dialogs
           first == t = js[c].out
           next == [k \in DOMAIN D |-> IF k # 1 THEN D[k] ELSE Retried(D[k], IF first THEN D[k].out ELSE n)]
           out == IF first THEN n ELSE js[c].out
           retry == IF D = << >> THEN js[c].retry + 1 ELSE js[c].retry
           s == [[[js[c] EXCEPT !.out = out] EXCEPT !.retry = retry] EXCEPT !.dialogs = next]
<1>4. n \in Nat /\ D = js[c].dialogs /\ first \in BOOLEAN
  BY <1>3
<1>5. PICK r : r = SubscribeAgain(c, trs[t].cseq + 1, trs[t].expires)
  OBVIOUS
<1>8. trs' = Append(trs, r) /\ post' = post \cup {<<Len(trs) + 1, 0>>} /\ UNCHANGED <<jn, inbox, seen>>
  BY <1>1, <1>5 DEF _eXosip_subscribe_send_request_with_credential, Sends, SubscribeAgain
<1>11. js' = [js EXCEPT ![c] = s]
  <2>2. js' = [js EXCEPT ![c].out = out, ![c].retry = retry, ![c].dialogs = next]
    BY <1>1 DEF _eXosip_subscribe_send_request_with_credential
  <2>3. ASSUME NEW o, NEW k, NEW E
        PROVE  [js EXCEPT ![c].out = o, ![c].retry = k, ![c].dialogs = E]
                 = [js EXCEPT ![c] = [[[js[c] EXCEPT !.out = o] EXCEPT !.retry = k] EXCEPT !.dialogs = E]]
    BY <1>3 DEF Subscribe
  <2> HIDE DEF out, retry, next
  <2> QED BY <2>2, <2>3
<1>9. /\ next \in Seq(Dialogue) /\ Len(next) = Len(D) /\ (next # << >> => D # << >>)
      /\ D # << >> => /\ next[1].local_cseq = trs[t].cseq + 1
                      /\ next[1].out = IF first THEN D[1].out ELSE n
  <2>1. CASE D = << >>
    <3>1. DOMAIN D = {} /\ next = << >>
      BY <2>1
    <3> QED BY <2>1, <3>1, EmptySeq
  <2>2. CASE D # << >>
    <3>1. D \in Seq(Dialogue) /\ Len(D) = 1 /\ DOMAIN D = {1} /\ D[1] \in Dialogue /\ D[1].local_cseq = trs[t].cseq
      BY <1>3, <2>2, LenProperties
    <3> DEFINE v == Retried(D[1], IF first THEN D[1].out ELSE n)
    <3>2. next = [D EXCEPT ![1] = v]
      BY <3>1
    <3>3. v \in Dialogue /\ v.local_cseq = trs[t].cseq + 1 /\ v.out = IF first THEN D[1].out ELSE n
      <4> DEFINE o == IF first THEN D[1].out ELSE n
      <4>1. o \in Nat
        BY <1>4, <3>1 DEF Dialogue
      <4>2. v = Retried(D[1], o)
        OBVIOUS
      <4> HIDE DEF o
      <4>3. Retried(D[1], o) \in Dialogue /\ Retried(D[1], o).local_cseq = D[1].local_cseq + 1 /\ Retried(D[1], o).out = o
        BY <3>1, <4>1, RetriedDialog
      <4>4. v \in Dialogue /\ v.local_cseq = trs[t].cseq + 1 /\ v.out = o
        <5> HIDE DEF v
        <5> QED BY <3>1, <4>2, <4>3
      <4> QED BY <4>4 DEF o
    <3>4. 1 \in 1 .. Len(D) /\ D \in Seq(Dialogue)
      BY <3>1
    <3> HIDE DEF v, next
    <3>5. next \in Seq(Dialogue) /\ Len(next) = Len(D) /\ next[1] = v
      BY <3>2, <3>3, <3>4, ExceptSeq
    <3> QED BY <2>2, <3>3, <3>5
  <2> QED BY <2>1, <2>2
<1> HIDE DEF next
<1>10. /\ s \in Subscribe /\ s.dialogs = next /\ s.out = IF first THEN n ELSE js[c].out
  <2>1. out \in Nat /\ retry \in Nat
    BY <1>3, <1>4 DEF Subscribe
  <2>2. ASSUME NEW q \in Subscribe, NEW k \in Nat
        PROVE  [q EXCEPT !.out = k] \in Subscribe /\ [q EXCEPT !.out = k].out = k
    BY DEF Subscribe
  <2>3. ASSUME NEW q \in Subscribe, NEW k \in Nat
        PROVE  [q EXCEPT !.retry = k] \in Subscribe /\ [q EXCEPT !.retry = k].out = q.out
    BY DEF Subscribe
  <2>4. ASSUME NEW q \in Subscribe, NEW E \in Seq(Dialogue)
        PROVE  /\ [q EXCEPT !.dialogs = E] \in Subscribe /\ [q EXCEPT !.dialogs = E].out = q.out
               /\ [q EXCEPT !.dialogs = E].dialogs = E
    BY DEF Subscribe
  <2> HIDE DEF out, retry
  <2>5. [js[c] EXCEPT !.out = out] \in Subscribe /\ [js[c] EXCEPT !.out = out].out = out
    BY <1>3, <2>1, <2>2
  <2>6. /\ [[js[c] EXCEPT !.out = out] EXCEPT !.retry = retry] \in Subscribe
        /\ [[js[c] EXCEPT !.out = out] EXCEPT !.retry = retry].out = out
    BY <2>1, <2>3, <2>5
  <2>7. s \in Subscribe /\ s.dialogs = next /\ s.out = out
    BY <1>9, <2>4, <2>6
  <2> QED BY <2>7 DEF out
<1> HIDE DEF s
<1>12. js' \in [DOMAIN js -> Subscribe] /\ js'[c] = s /\ \A d \in DOMAIN js : d # c => js'[d] = js[d]
  BY <1>3, <1>10, <1>11
<1>13. Fresh(r, "watcher", c, trs[t].cseq + 1, trs[t].expires, "none", 0)
  BY <1>3, <1>5, FreshSubscribe
<1>14. /\ Closed(eXosip_find_last_out_subscribe(c))
       /\ Fresh(r, "watcher", c, trs[eXosip_find_last_out_subscribe(c)].cseq + 1, trs[t].expires, "none", 0)
  BY <1>1, <1>2, <1>13
<1>15. s.out \in 1 .. Len(trs) + 1 /\ Len(s.dialogs) <= 1
  BY <1>3, <1>4, <1>9, <1>10
<1>16. s.dialogs # << >> =>
          js[c].dialogs # << >> /\ Head(s.dialogs) = s.dialogs[1] /\ s.dialogs[1].local_cseq = r.cseq /\ s.dialogs[1].out # s.out
  <2> SUFFICES ASSUME next # << >>
               PROVE  D # << >> /\ Head(next) = next[1] /\ next[1].local_cseq = r.cseq /\ next[1].out # s.out
    BY <1>10
  <2>1. D # << >> /\ Head(next) = next[1] /\ next[1].local_cseq = r.cseq
    BY <1>9, <1>13, HeadIsFirst DEF Fresh
  <2>2. next[1].out # s.out
    <3>1. CASE first
      <4>1. D[1].out # n
        <5>1. D[1].out = 0 \/ D[1].out = t
          BY <1>1, <1>3, <2>1 DEF eXosip_find_last_out_subscribe
        <5>2. t \in 1 .. Len(trs)
          BY <1>1, DialogKnown
        <5> QED BY <1>3, <1>4, <5>1, <5>2
      <4> QED BY <1>9, <1>10, <2>1, <3>1, <4>1
    <3>2. CASE ~first
      BY <1>3, <1>4, <1>9, <1>10, <2>1, <3>2
    <3> QED BY <3>1, <3>2
  <2> QED BY <2>1, <2>2
<1>17. AsksWith(s, Len(trs) + 1)
  <2>1. CASE first
    <3>1. next # << >> => next[1].out = 0
      <4> SUFFICES ASSUME next # << >> PROVE next[1].out = 0
        OBVIOUS
      <4>1. D # << >> /\ next[1].out = D[1].out
        BY <1>9, <2>1
      <4>2. D[1].out = 0
        BY <1>1, <1>3, <2>1, <4>1 DEF eXosip_find_last_out_subscribe
      <4> QED BY <4>1, <4>2
    <3> QED BY <1>4, <1>10, <1>16, <2>1, <3>1 DEF AsksWith
  <2>2. CASE ~first
    <3>1. D # << >> /\ next # << >>
      <4>1. D # << >>
        BY <1>1, <2>2 DEF eXosip_find_last_out_subscribe
      <4>2. Len(next) = 1
        BY <1>3, <1>9, <4>1
      <4> QED BY <4>1, <4>2, EmptySeq
    <3>2. next[1].out = n /\ Head(next) = next[1] /\ n # 0
      BY <1>3, <1>4, <1>9, <2>2, <3>1, HeadIsFirst
    <3> QED BY <1>4, <1>10, <3>1, <3>2 DEF AsksWith
  <2> QED BY <2>1, <2>2
<1> QED BY <1>8, <1>10, <1>12, <1>14, <1>15, <1>16, <1>17, WatcherSends

\* Renewing by itself is renewing.
LEMMA AutomaticRefreshStep ==
    ASSUME SubInv, NEW c \in DOMAIN js, _eXosip_subscribe_automatic_refresh(c)
    PROVE  SubInv'
<1>1. PICK e : e = trs[eXosip_find_last_out_subscribe(c)].expires
  OBVIOUS
<1>2. e \in {0, 600}
  BY <1>1, DialogKnown DEF Requests
<1>3. eXosip_subscribe_refresh(c, e)
  BY <1>1 DEF _eXosip_subscribe_automatic_refresh
<1> QED BY <1>2, <1>3, RefreshStep

-----------------------------------------------------------------------------
(* Requests that change: nothing is opened, known or unserved again. *)

Moves ==
    /\ Kept /\ trs' \in Seq(Requests)
    /\ \A u \in 1 .. Len(trs) :
          /\ Closed(u) => Closed(u)'
          /\ trs[u].served # "no" => trs'[u].served # "no"
          /\ trs'[u].known => trs[u].known

\* The subscription of c asks for the same request as before.
StillAsks(c) ==
    /\ js'[c].out = js[c].out /\ eXosip_find_last_out_subscribe(c)' = eXosip_find_last_out_subscribe(c)
    /\ Len(js'[c].dialogs) <= 1
    /\ js'[c].dialogs # << >> => /\ js'[c].dialogs[1].local_cseq = trs[eXosip_find_last_out_subscribe(c)].cseq
                                 /\ js'[c].dialogs[1].out # js'[c].out

\* The watcher finds the requests it found before.
LEMMA WatchingMoves ==
    ASSUME SubInv, Moves, DOMAIN js' \subseteq DOMAIN js, \A c \in DOMAIN js' : StillAsks(c),
           \A u \in 1 .. Len(trs) :
              trs[u].by = "watcher" /\ trs[u].call \in DOMAIN js' /\ trs[u].known => trs'[u].known
    PROVE  Watching'
<1>1. \A by, c : Sent(by, c)' = Sent(by, c)
  BY KeptSent DEF SubInv, Moves
<1>2. Len(trs') = Len(trs) /\ \A u \in 1 .. Len(trs) : Keeps(u) /\ (Closed(u) => Closed(u)')
  BY DEF Moves, Kept
<1> SUFFICES ASSUME NEW c \in DOMAIN js'
             PROVE  /\ js'[c].out \in 1 .. Len(trs') /\ Len(js'[c].dialogs) <= 1
                    /\ Latest(c, eXosip_find_last_out_subscribe(c))'
                    /\ js'[c].dialogs # << >> =>
                         /\ js'[c].dialogs[1].local_cseq = trs'[eXosip_find_last_out_subscribe(c)'].cseq
                         /\ js'[c].dialogs[1].out # js'[c].out
                    /\ \A u \in Sent("watcher", c)' : trs'[u].known
  BY DEF Watching
<1>3. PICK t : t = eXosip_find_last_out_subscribe(c)
  OBVIOUS
<1>4. /\ js[c].out \in 1 .. Len(trs) /\ Latest(c, t) /\ t \in 1 .. Len(trs)
      /\ \A u \in Sent("watcher", c) : trs[u].known
  BY <1>3 DEF SubInv, Watching, Latest, Sent
<1>5. StillAsks(c)
  OBVIOUS
<1>6. Latest(c, t)'
  <2>1. t \in Sent("watcher", c)'
    BY <1>1, <1>4 DEF Latest
  <2>2. ASSUME NEW u \in Sent("watcher", c)', u # t
        PROVE  trs'[u].cseq < trs'[t].cseq /\ Closed(u)'
    <3>1. u \in Sent("watcher", c)
      BY <1>1
    <3>2. trs[u].cseq < trs[t].cseq /\ Closed(u)
      BY <1>4, <2>2, <3>1 DEF Latest
    <3>3. u \in 1 .. Len(trs)
      BY <3>1 DEF Sent
    <3> QED BY <1>2, <1>4, <3>2, <3>3 DEF Keeps
  <2> QED BY <2>1, <2>2 DEF Latest
<1>7. \A u \in Sent("watcher", c)' : trs'[u].known
  <2>1. \A u \in Sent("watcher", c) : u \in 1 .. Len(trs) /\ trs[u].by = "watcher" /\ trs[u].call = c
    BY DEF Sent
  <2> QED BY <1>1, <1>4, <2>1
<1>8. eXosip_find_last_out_subscribe(c)' = t /\ js'[c].out = js[c].out /\ Len(js'[c].dialogs) <= 1
  BY <1>3, <1>5 DEF StillAsks
<1>9. js'[c].dialogs # << >> => js'[c].dialogs[1].local_cseq = trs'[t].cseq /\ js'[c].dialogs[1].out # js'[c].out
  BY <1>2, <1>3, <1>4, <1>5 DEF StillAsks, Keeps
<1> QED BY <1>2, <1>4, <1>6, <1>7, <1>8, <1>9

\* A subscription that does not change asks for what it did.
LEMMA AsksTheSame ==
    ASSUME SubInv, NEW c \in DOMAIN js, js'[c] = js[c]
    PROVE  StillAsks(c)
BY DEF SubInv, Watching, StillAsks, eXosip_find_last_out_subscribe

\* The phone finds what it noted, and knows of no open NOTIFY besides.
LEMMA NotifierMoves ==
    ASSUME SubInv, Moves, seen'.news = seen.news,
           \A c \in DOMAIN jn' :
              /\ jn'[c].inc \in Sent("watcher", c) /\ trs'[jn'[c].inc].served # "no"
              /\ jn'[c].status = "terminated" => (c \in DOMAIN jn /\ jn[c].status = "terminated") \/ GivenUp(c)
              /\ jn'[c].out = 0 \/ (c \in DOMAIN jn /\ jn'[c].out = jn[c].out),
           \A u \in 1 .. Len(trs) : trs[u].by = "phone" /\ trs'[u].known /\ ~Closed(u)' =>
              trs[u].call \in DOMAIN jn' /\ (trs[u].call \in DOMAIN jn => jn'[trs[u].call].out = jn[trs[u].call].out)
    PROVE  Subscribed' /\ LastNews' /\ OneOpen' /\ NewsTold'
<1>1. \A by, c : Sent(by, c)' = Sent(by, c)
  BY KeptSent DEF SubInv, Moves
<1>2. /\ Len(trs') = Len(trs) /\ \A u \in 1 .. Len(trs) : Keeps(u) /\ (Closed(u) => Closed(u)')
      /\ \A u \in 1 .. Len(trs) : trs'[u].known => trs[u].known
      /\ \A by, c : Sent(by, c) \subseteq 1 .. Len(trs)
  BY DEF Moves, Kept, Sent
<1>3. \A c : GivenUp(c) => \E t \in Sent("watcher", c)' : trs'[t].expires = 0
  BY <1>1, <1>2 DEF GivenUp, Keeps
<1>4. \A c \in DOMAIN jn : jn[c].status = "terminated" => GivenUp(c)
  BY DEF SubInv, Subscribed, GivenUp
<1>5. Subscribed'
  <2> SUFFICES ASSUME NEW c \in DOMAIN jn'
               PROVE  /\ jn'[c].inc \in Sent("watcher", c)' /\ trs'[jn'[c].inc].served # "no"
                      /\ jn'[c].status = "terminated" => \E t \in Sent("watcher", c)' : trs'[t].expires = 0
    BY DEF Subscribed
  <2> QED BY <1>1, <1>3, <1>4
<1>6. LastNews'
  <2> SUFFICES ASSUME NEW c \in DOMAIN jn', jn'[c].out # 0
               PROVE  /\ jn'[c].out \in Sent("phone", c)'
                      /\ \A u \in Sent("phone", c)' : trs'[u].news <= trs'[jn'[c].out].news
    BY DEF LastNews
  <2>1. c \in DOMAIN jn /\ jn'[c].out = jn[c].out /\ jn[c].out # 0
    OBVIOUS
  <2>2. jn[c].out \in Sent("phone", c) /\ \A u \in Sent("phone", c) : trs[u].news <= trs[jn[c].out].news
    BY <2>1 DEF SubInv, LastNews
  <2>3. \A u \in Sent("phone", c) : trs'[u].news = trs[u].news
    BY <1>2 DEF Keeps
  <2> QED BY <1>1, <2>1, <2>2, <2>3
<1>7. OneOpen'
  <2> SUFFICES ASSUME NEW u \in 1 .. Len(trs), trs'[u].by = "phone", trs'[u].known, ~Closed(u)'
               PROVE  trs'[u].call \in DOMAIN jn' /\ jn'[trs'[u].call].out = u
    BY <1>2 DEF OneOpen
  <2>1. trs[u].by = "phone" /\ trs[u].known /\ ~Closed(u) /\ trs'[u].call = trs[u].call
    BY <1>2 DEF Keeps
  <2>2. trs[u].call \in DOMAIN jn /\ jn[trs[u].call].out = u
    BY <2>1 DEF SubInv, OneOpen
  <2>3. trs[u].call \in DOMAIN jn' /\ jn'[trs[u].call].out = jn[trs[u].call].out
    BY <2>1, <2>2
  <2> QED BY <2>1, <2>2, <2>3
<1>8. NewsTold'
  BY <1>2 DEF SubInv, NewsTold, Keeps
<1> QED BY <1>5, <1>6, <1>7, <1>8

\* Nobody is forgotten who has not given up, unless something got lost.
LEMMA ServedMoves ==
    ASSUME SubInv, Moves, DOMAIN js' \subseteq DOMAIN js,
           \A c \in DOMAIN js' : js'[c].dialogs # << >> => js[c].dialogs # << >> \/ Reached(c),
           \A c \in DOMAIN js' : seen'.trouble = 0 =>
              /\ seen.trouble = 0
              /\ Reached(c)' => Reached(c) \/ c \in DOMAIN jn'
              /\ c \in DOMAIN jn => c \in DOMAIN jn' \/ GivenUp(c)
    PROVE  Served'
<1>1. \A by, c : Sent(by, c)' = Sent(by, c)
  BY KeptSent DEF SubInv, Moves
<1>2. \A c : (Reached(c) => Reached(c)') /\ (GivenUp(c) => GivenUp(c)')
  <2>1. \A c : Sent("watcher", c) \subseteq 1 .. Len(trs)
    BY DEF Sent
  <2> QED BY <1>1, <2>1 DEF Reached, GivenUp, Moves, Kept, Keeps
<1>3. /\ \A c \in Calls : Sent("phone", c) # {} => Reached(c)
      /\ \A c \in DOMAIN js : js[c].dialogs # << >> => Reached(c)
      /\ seen.trouble = 0 => \A c \in DOMAIN js : Reached(c) => c \in DOMAIN jn \/ GivenUp(c)
  BY DEF SubInv, Served
<1>4. \A c \in Calls : Sent("phone", c)' # {} => Reached(c)'
  BY <1>1, <1>2, <1>3
<1>5. \A c \in DOMAIN js' : js'[c].dialogs # << >> => Reached(c)'
  BY <1>2, <1>3
<1>6. seen'.trouble = 0 => \A c \in DOMAIN js' : Reached(c)' => c \in DOMAIN jn' \/ GivenUp(c)'
  BY <1>2, <1>3
<1> QED BY <1>4, <1>5, <1>6 DEF Served

\* What was heard was told.
LEMMA HeardMoves ==
    ASSUME SubInv, Moves, \A c \in Calls : seen'.heard[c] = seen.heard[c] \/ \E t \in Sent("phone", c) : trs[t].news = seen'.heard[c]
    PROVE  HeardWasTold'
<1>1. \A by, c : Sent(by, c)' = Sent(by, c)
  BY KeptSent DEF SubInv, Moves
<1>2. \A c : \A t \in Sent("phone", c) : trs'[t].news = trs[t].news
  BY DEF Moves, Kept, Keeps, Sent
<1> QED BY <1>1, <1>2 DEF SubInv, HeardWasTold

\* q is the request r, whatever became of it.
Same(r, q) ==
    /\ q \in Requests /\ q.by = r.by /\ q.call = r.call /\ q.cseq = r.cseq
    /\ q.expires = r.expires /\ q.status = r.status /\ q.news = r.news

\* What an update changes of a request, field by field.
LEMMA ServedFields ==
    ASSUME NEW r \in Requests, NEW s \in {"no", "proceeding", "completed"}, NEW q, q = [r EXCEPT !.served = s]
    PROVE  Same(r, q) /\ q.state = r.state /\ q.answer = r.answer /\ q.known = r.known /\ q.served = s
<1>1. q \in Requests
  BY SMT DEF Requests
<1> QED BY <1>1 DEF Requests, Same

\* The state of the transaction,
LEMMA StateFields ==
    ASSUME NEW r \in Requests, NEW s \in {"trying", "completed", "terminated"}, NEW q, q = [r EXCEPT !.state = s]
    PROVE  Same(r, q) /\ q.state = s /\ q.answer = r.answer /\ q.known = r.known /\ q.served = r.served
<1>1. q \in Requests
  BY SMT DEF Requests
<1> QED BY <1>1 DEF Requests, Same

\* its answer,
LEMMA AnswerFields ==
    ASSUME NEW r \in Requests, NEW a \in Nat, NEW q, q = [r EXCEPT !.answer = a]
    PROVE  Same(r, q) /\ q.state = r.state /\ q.answer = a /\ q.known = r.known /\ q.served = r.served
<1>1. q \in Requests
  BY SMT DEF Requests
<1> QED BY <1>1 DEF Requests, Same

\* Two updates leave it the same request.
LEMMA SameTwice ==
    ASSUME NEW r, NEW p, NEW q, Same(r, p), Same(p, q)
    PROVE  Same(r, q)
BY DEF Same

\* and whether it is known.
LEMMA KnownFields ==
    ASSUME NEW r \in Requests, NEW q, q = [r EXCEPT !.known = FALSE]
    PROVE  Same(r, q) /\ q.state = r.state /\ q.answer = r.answer /\ q.known = FALSE /\ q.served = r.served
<1>1. ASSUME NEW b \in BOOLEAN, NEW p, p = [r EXCEPT !.known = b]
      PROVE  Same(r, p) /\ p.state = r.state /\ p.answer = r.answer /\ p.known = b /\ p.served = r.served
  <2>1. p \in Requests
    BY <1>1, SMT DEF Requests
  <2> QED BY <1>1, <2>1 DEF Requests, Same
<1> QED BY <1>1, Zenon

\* One request of the sequence becomes another.
Replaced(t, q) == [trs EXCEPT ![t] = q]

\* One update leaves all others alone.
LEMMA OneBecomes ==
    ASSUME SubTypeOK, NEW t \in 1 .. Len(trs), NEW q, Same(trs[t], q)
    PROVE  /\ Replaced(t, q) \in Seq(Requests) /\ Len(Replaced(t, q)) = Len(trs) /\ Replaced(t, q)[t] = q
           /\ \A u \in 1 .. Len(trs) : (u # t => Replaced(t, q)[u] = trs[u]) /\ Same(trs[u], Replaced(t, q)[u])
<1> DEFINE ts == [trs EXCEPT ![t] = q]
<1>1. q \in Requests
  BY DEF Same
<1>2. /\ ts \in Seq(Requests) /\ Len(ts) = Len(trs)
      /\ \A u \in 1 .. Len(trs) : ts[u] = IF u = t THEN q ELSE trs[u]
  BY <1>1, ChangesOne
<1>3. \A u \in 1 .. Len(trs) : trs[u] \in Requests
  BY Typed
<1> HIDE DEF ts
<1>4. ts = Replaced(t, q)
  BY DEF ts, Replaced
<1>5. ts[t] = q /\ \A u \in 1 .. Len(trs) : (u # t => ts[u] = trs[u]) /\ Same(trs[u], ts[u])
  BY <1>2, <1>3 DEF Same
<1> QED BY <1>2, <1>4, <1>5

\* What is forgotten is only that the request is known.
Forgotten(r, q, by, c) ==
    /\ Same(r, q) /\ q.state = r.state /\ q.answer = r.answer /\ q.served = r.served
    /\ q.known = IF r.by = by /\ r.call = c THEN FALSE ELSE r.known

\* eXosip_subscribe_free and eXosip_notify_free.
LEMMA ForgottenFields ==
    ASSUME NEW ts \in Seq(Requests), NEW by, NEW c
    PROVE  /\ Forgets(ts, by, c) \in Seq(Requests) /\ Len(Forgets(ts, by, c)) = Len(ts)
           /\ \A u \in 1 .. Len(ts) : Forgotten(ts[u], Forgets(ts, by, c)[u], by, c)
<1> DEFINE new == Forgets(ts, by, c)
<1>1. /\ new \in Seq(Requests) /\ Len(new) = Len(ts) /\ Len(ts) \in Nat
      /\ \A t \in 1 .. Len(ts) :
            new[t] = IF ts[t].by = by /\ ts[t].call = c THEN [ts[t] EXCEPT !.known = FALSE] ELSE ts[t]
  BY ForgetsEach
<1>2. \A u \in 1 .. Len(ts) : ts[u] \in Requests
  BY ElementOfSeq
<1>3. ASSUME NEW u \in 1 .. Len(ts)
      PROVE  Forgotten(ts[u], new[u], by, c)
  <2>1. CASE ts[u].by = by /\ ts[u].call = c
    <3>1. ts[u] \in Requests /\ new[u] = [ts[u] EXCEPT !.known = FALSE]
      BY <1>1, <1>2, <2>1
    <3> QED BY <2>1, <3>1, KnownFields DEF Forgotten
  <2>2. CASE ~(ts[u].by = by /\ ts[u].call = c)
    <3>1. ts[u] \in Requests /\ new[u] = ts[u]
      BY <1>1, <1>2, <2>2
    <3> QED BY <2>2, <3>1 DEF Same, Forgotten
  <2> QED BY <2>1, <2>2
<1> QED BY <1>1, <1>3

\* Requests that stay the same ones move on.
LEMMA SameMoves ==
    ASSUME SubTypeOK, trs' \in Seq(Requests), Len(trs') = Len(trs),
           \A u \in 1 .. Len(trs) :
              /\ Same(trs[u], trs'[u])
              /\ Closed(u) => Closed(u)'
              /\ trs[u].served # "no" => trs'[u].served # "no"
              /\ trs'[u].known => trs[u].known
    PROVE  Moves
BY DEF Moves, Kept, Keeps, Same

\* The answers P may be under way now; what was is so still or has arrived.
Answering(P) ==
    /\ post' \subseteq post \cup P /\ \A t \in inbox' : t \in 1 .. Len(trs) /\ trs[t].by = "watcher"
    /\ \A m \in P :
          /\ m \in (1 .. Len(trs)) \X (Nat \ {0})
          /\ trs[m[1]].by = "watcher" /\ m[2] <= 299 => trs'[m[1]].served # "no"
          /\ trs[m[1]].by = "phone" =>
                /\ m[2] \in {200, 407, 481} /\ <<m[1], 0>> \notin post'
                /\ m[2] = 481 \/ (m[2] = 200 /\ trs[m[1]].status = "terminated") => trs[m[1]].call \notin DOMAIN js'

\* A transaction changes by an answer, or ends.
Proceeds(u) ==
    /\ \/ trs'[u].answer = trs[u].answer
       \/ trs'[u].answer # 0 /\ (trs[u].by = "phone" =>
             trs'[u].answer \in {200, 407, 481} /\ (trs'[u].answer = 481 => trs[u].call \notin DOMAIN js'))
    /\ trs'[u].state = "completed" => trs[u].state = "completed" \/ trs'[u].answer # 0
    /\ trs'[u].state = trs[u].state \/ (trs[u].by = "phone" => <<u, 0>> \notin post')
    /\ trs[u].by = "watcher" /\ trs[u].expires = 0 /\ trs'[u].state = "terminated" =>
          trs[u].state = "terminated" \/ trs[u].call \notin DOMAIN js'

\* No packet about an open NOTIFY goes without another, or else one got lost.
Delivers ==
    seen'.trouble = 0 =>
        /\ seen.trouble = 0
        /\ \A u \in 1 .. Len(trs) : trs[u].by = "phone" /\ trs'[u].state = "trying" =>
              trs[u].state = "trying" /\ ((\E m \in post : m[1] = u) => \E k \in post' : k[1] = u)

\* A step that only answers, loses or ends what was under way keeps what is known of it.
LEMMA AnswersMove ==
    ASSUME SubInv, Moves, NEW P, Answering(P), \A u \in 1 .. Len(trs) : Proceeds(u), Delivers, DOMAIN js' \subseteq DOMAIN js
    PROVE  /\ Answers' /\ OnItsWay' /\ Unwatched' /\ Farewell' /\ Delivered'
           /\ post' \subseteq (1 .. Len(trs')) \X Nat /\ inbox' \subseteq 1 .. Len(trs')
<1>1. /\ Len(trs') = Len(trs)
      /\ \A u \in 1 .. Len(trs) : /\ trs'[u].by = trs[u].by /\ trs'[u].call = trs[u].call /\ trs'[u].expires = trs[u].expires
                                  /\ trs'[u].status = trs[u].status
                                  /\ trs[u].served # "no" => trs'[u].served # "no"
  BY DEF Moves, Kept, Keeps
<1>2. /\ \A m \in post' : m \in post \/ m \in P
      /\ \A t \in inbox' : t \in 1 .. Len(trs) /\ trs[t].by = "watcher"
  BY DEF Answering
<1>3. \A m \in post : m[1] \in 1 .. Len(trs) /\ m[2] \in Nat /\ m = <<m[1], m[2]>>
  BY Typed DEF SubInv
<1>4. ASSUME NEW m \in P
      PROVE  /\ m[1] \in 1 .. Len(trs) /\ m[2] \in Nat /\ m[2] # 0 /\ m = <<m[1], m[2]>>
             /\ trs[m[1]].by = "watcher" /\ m[2] <= 299 => trs'[m[1]].served # "no"
             /\ trs[m[1]].by = "phone" =>
                   /\ m[2] \in {200, 407, 481} /\ <<m[1], 0>> \notin post'
                   /\ m[2] = 481 \/ (m[2] = 200 /\ trs[m[1]].status = "terminated") => trs[m[1]].call \notin DOMAIN js'
  BY DEF Answering
<1>5. ASSUME NEW m \in post'
      PROVE  m[1] \in 1 .. Len(trs) /\ m[2] \in Nat /\ m = <<m[1], m[2]>>
  <2>1. CASE m \in post
    BY <1>3, <2>1
  <2>2. CASE m \in P
    BY <1>4, <2>2, ZenonT(60)
  <2> QED BY <1>2, <2>1, <2>2
<1>6. Answers'
  <2>0. Answers
    BY DEF SubInv
  <2>1. \A t \in inbox' : trs'[t].by = "watcher"
    BY <1>1, <1>2
  <2>2. ASSUME NEW m \in post', trs'[m[1]].by = "watcher", m[2] \in 1 .. 299
        PROVE  trs'[m[1]].served # "no"
    <3>1. CASE m \in post
      BY <1>1, <1>3, <2>0, <2>2, <3>1 DEF Answers
    <3>2. CASE m \in P
      <4>1. trs[m[1]].by = "watcher"
        BY <1>1, <1>5, <2>2
      <4>2. m[2] <= 299
        <5>1. \A x \in 1 .. 299 : x <= 299
          OBVIOUS
        <5> QED BY <2>2, <5>1, Zenon
      <4> QED BY <1>4, <3>2, <4>1, <4>2, Zenon
    <3> QED BY <1>2, <3>1, <3>2
  <2>3. ASSUME NEW m \in post', trs'[m[1]].by = "phone"
        PROVE  m[2] \in {0, 200, 407, 481}
    <3>1. CASE m \in post
      BY <1>1, <1>3, <2>0, <2>3, <3>1 DEF Answers
    <3>2. CASE m \in P
      <4>1. trs[m[1]].by = "phone"
        BY <1>1, <1>5, <2>3
      <4>2. m[2] \in {200, 407, 481}
        BY <1>4, <3>2, <4>1, Zenon
      <4> QED BY <4>2
    <3> QED BY <1>2, <3>1, <3>2
  <2>4. \A t \in 1 .. Len(trs) : trs'[t].by = "phone" => trs'[t].answer \in {0, 200, 407, 481}
    <3> SUFFICES ASSUME NEW t \in 1 .. Len(trs), trs'[t].by = "phone" PROVE trs'[t].answer \in {0, 200, 407, 481}
      OBVIOUS
    <3>1. trs[t].by = "phone"
      BY <1>1
    <3>2. trs[t].answer \in {0, 200, 407, 481}
      BY <2>0, <3>1 DEF Answers
    <3>3. Proceeds(t)
      OBVIOUS
    <3>4. trs'[t].answer = trs[t].answer \/ trs'[t].answer \in {200, 407, 481}
      BY <3>1, <3>3, Zenon DEF Proceeds
    <3> QED BY <3>2, <3>4
  <2>5. \A t \in 1 .. Len(trs) : trs'[t].state = "completed" => trs'[t].answer # 0
    <3> SUFFICES ASSUME NEW t \in 1 .. Len(trs), trs'[t].state = "completed" PROVE trs'[t].answer # 0
      OBVIOUS
    <3>1. trs[t].state = "completed" => trs[t].answer # 0
      BY <2>0 DEF Answers
    <3>2. Proceeds(t)
      OBVIOUS
    <3> QED BY <3>1, <3>2, Zenon DEF Proceeds
  <2> QED BY <1>1, <2>1, <2>2, <2>3, <2>4, <2>5 DEF Answers
<1>7. OnItsWay'
  <2> SUFFICES ASSUME NEW m \in post', trs'[m[1]].by = "phone", m[2] = 0
               PROVE  trs'[m[1]].state = "trying" /\ \A k \in post' : k[1] = m[1] => k = m
    BY DEF OnItsWay
  <2>1. m \in post /\ m[1] \in 1 .. Len(trs) /\ trs[m[1]].by = "phone" /\ <<m[1], 0>> \in post'
    BY <1>1, <1>2, <1>4, <1>5
  <2>2. trs[m[1]].state = "trying" /\ \A k \in post : k[1] = m[1] => k = m
    BY <2>1 DEF SubInv, OnItsWay
  <2>3. trs'[m[1]].state = trs[m[1]].state
    BY <2>1 DEF Proceeds
  <2>4. \A k \in P : k[1] # m[1]
    <3> SUFFICES ASSUME NEW k \in P, k[1] = m[1] PROVE FALSE
      OBVIOUS
    <3>1. trs[k[1]].by = "phone"
      BY <2>1
    <3>2. <<k[1], 0>> \notin post'
      BY <1>4, <3>1, Zenon
    <3> QED BY <2>1, <3>2
  <2> QED BY <1>2, <2>2, <2>3, <2>4
<1>8. Unwatched'
  <2>1. ASSUME NEW m \in post', trs'[m[1]].by = "phone", m[2] = 481 \/ (m[2] = 200 /\ trs'[m[1]].status = "terminated")
        PROVE  trs'[m[1]].call \notin DOMAIN js'
    <3>1. CASE m \in post
      BY <1>1, <1>3, <2>1, <3>1 DEF SubInv, Unwatched
    <3>2. CASE m \in P
      <4>1. trs[m[1]].by = "phone" /\ (m[2] = 481 \/ (m[2] = 200 /\ trs[m[1]].status = "terminated"))
            /\ trs'[m[1]].call = trs[m[1]].call
        BY <1>1, <1>5, <2>1
      <4>2. trs[m[1]].call \notin DOMAIN js'
        BY <1>4, <3>2, <4>1, Zenon
      <4> QED BY <4>1, <4>2
    <3> QED BY <1>2, <3>1, <3>2
  <2>2. ASSUME NEW t \in 1 .. Len(trs), trs'[t].by = "phone", trs'[t].answer = 481
        PROVE  trs'[t].call \notin DOMAIN js'
    <3>1. trs[t].by = "phone" /\ trs'[t].call = trs[t].call
      BY <1>1, <2>2
    <3>2. trs[t].answer = 481 => trs[t].call \notin DOMAIN js'
      BY <3>1 DEF SubInv, Unwatched
    <3>3. Proceeds(t)
      OBVIOUS
    <3>4. trs'[t].answer = trs[t].answer \/ trs[t].call \notin DOMAIN js'
      BY <2>2, <3>1, <3>3, Zenon DEF Proceeds
    <3> QED BY <2>2, <3>1, <3>2, <3>4
  <2> QED BY <1>1, <2>1, <2>2 DEF Unwatched
<1>9. Farewell'
  <2> SUFFICES ASSUME NEW t \in 1 .. Len(trs), trs'[t].by = "watcher", trs'[t].expires = 0, trs'[t].state = "terminated"
               PROVE  trs'[t].call \notin DOMAIN js'
    BY <1>1 DEF Farewell
  <2>1. trs[t].by = "watcher" /\ trs[t].expires = 0 /\ trs'[t].call = trs[t].call
    BY <1>1
  <2>2. trs[t].state = "terminated" => trs[t].call \notin DOMAIN js'
    BY <2>1 DEF SubInv, Farewell
  <2>3. Proceeds(t)
    OBVIOUS
  <2>4. trs[t].call \notin DOMAIN js'
    BY <2>1, <2>2, <2>3, Zenon DEF Proceeds
  <2> QED BY <2>1, <2>4
<1>10. Delivered'
  BY <1>1 DEF SubInv, Delivered, Delivers
<1>11. post' \subseteq (1 .. Len(trs')) \X Nat /\ inbox' \subseteq 1 .. Len(trs')
  BY <1>1, <1>2, <1>5
<1> QED BY <1>6, <1>7, <1>8, <1>9, <1>10, <1>11

-----------------------------------------------------------------------------
(* The other steps of the watcher. *)

\* One subscription less at the watcher,
LEMMA WatcherDropped ==
    ASSUME SubTypeOK, NEW c, js' = Without(js, c)
    PROVE  /\ DOMAIN js' = DOMAIN js \ {c} /\ \A d \in DOMAIN js' : js'[d] = js[d]
           /\ DOMAIN js' \subseteq Calls /\ js' \in [DOMAIN js' -> Subscribe]
<1>1. /\ DOMAIN js' = DOMAIN js \ {c} /\ js' = [x \in DOMAIN js' |-> js'[x]] /\ \A d \in DOMAIN js' : js'[d] = js[d]
  BY DEF Without
<1>2. \A d \in DOMAIN js' : js'[d] \in Subscribe
  BY <1>1, Typed
<1>3. js' \in [DOMAIN js' -> Subscribe]
  BY <1>1, <1>2
<1> QED BY <1>1, <1>3 DEF SubTypeOK

\* or at the phone.
LEMMA PhoneDropped ==
    ASSUME SubTypeOK, NEW c, jn' = Without(jn, c)
    PROVE  /\ DOMAIN jn' = DOMAIN jn \ {c} /\ \A d \in DOMAIN jn' : jn'[d] = jn[d]
           /\ DOMAIN jn' \subseteq Calls /\ jn' \in [DOMAIN jn' -> Notifier]
<1>1. /\ DOMAIN jn' = DOMAIN jn \ {c} /\ jn' = [x \in DOMAIN jn' |-> jn'[x]] /\ \A d \in DOMAIN jn' : jn'[d] = jn[d]
  BY DEF Without
<1>2. \A d \in DOMAIN jn' : jn'[d] \in Notifier
  BY <1>1, Typed
<1>3. jn' \in [DOMAIN jn' -> Notifier]
  BY <1>1, <1>2
<1> QED BY <1>1, <1>3 DEF SubTypeOK

\* The watcher forgets all it asked: no request of the call is open to it any more.
LEMMA RemoveStep ==
    ASSUME SubInv, NEW c \in DOMAIN js, eXosip_subscribe_remove(c)
    PROVE  SubInv'
<1>1. js' = Without(js, c) /\ trs' = Forgets(trs, "watcher", c) /\ UNCHANGED <<jn, post, inbox, seen>>
  BY DEF eXosip_subscribe_remove
<1>2. /\ trs' \in Seq(Requests) /\ Len(trs') = Len(trs)
      /\ \A u \in 1 .. Len(trs) :
            /\ Same(trs[u], trs'[u]) /\ trs'[u].state = trs[u].state /\ trs'[u].answer = trs[u].answer
            /\ trs'[u].served = trs[u].served
            /\ trs'[u].known = IF trs[u].by = "watcher" /\ trs[u].call = c THEN FALSE ELSE trs[u].known
  <2>1. trs \in Seq(Requests)
    BY DEF SubInv, SubTypeOK
  <2>2. trs' \in Seq(Requests) /\ Len(trs') = Len(trs) /\ \A u \in 1 .. Len(trs) : Forgotten(trs[u], trs'[u], "watcher", c)
    BY <1>1, <2>1, ForgottenFields
  <2> QED BY <2>2 DEF Forgotten
<1>3. /\ DOMAIN js' = DOMAIN js \ {c} /\ \A d \in DOMAIN js' : js'[d] = js[d]
      /\ DOMAIN js' \subseteq Calls /\ js' \in [DOMAIN js' -> Subscribe]
  BY <1>1, WatcherDropped DEF SubInv
<1>4. Moves
  BY <1>2, SameMoves DEF SubInv, Closed
<1>5. Numbered' /\ OneCSeqEach'
  BY <1>4, KeptSent DEF SubInv, Moves
<1>6. SubTypeOK'
  BY <1>1, <1>2, <1>3 DEF SubInv, SubTypeOK
<1>7. Watching'
  <2>1. \A d \in DOMAIN js' : StillAsks(d)
    BY <1>3, AsksTheSame
  <2> QED BY <1>2, <1>3, <1>4, <2>1, WatchingMoves
<1>8. Subscribed' /\ LastNews' /\ OneOpen' /\ NewsTold'
  <2>1. \A d \in DOMAIN jn : /\ jn[d].inc \in Sent("watcher", d) /\ trs'[jn[d].inc].served # "no"
    BY <1>2 DEF SubInv, Subscribed, Sent
  <2>2. \A u \in 1 .. Len(trs) : trs[u].by = "phone" /\ trs'[u].known /\ ~Closed(u)' => trs[u].call \in DOMAIN jn
    BY <1>2 DEF SubInv, OneOpen, Closed
  <2> QED BY <1>1, <1>4, <2>1, <2>2, NotifierMoves
<1>9. HeardWasTold'
  BY <1>1, <1>4, HeardMoves
<1>10. Served'
  <2>1. \A d : Reached(d)' => Reached(d)
    BY <1>2 DEF Reached, Sent, Same
  <2> QED BY <1>1, <1>3, <1>4, <2>1, ServedMoves
<1>11. Answers' /\ OnItsWay' /\ Unwatched' /\ Farewell' /\ Delivered'
  <2>1. Answering({})
    BY <1>1 DEF SubInv, SubTypeOK, Answers, Answering
  <2>2. \A u \in 1 .. Len(trs) : Proceeds(u)
    BY <1>2 DEF Proceeds
  <2>3. Delivers
    BY <1>1, <1>2 DEF Delivers
  <2> QED BY <1>3, <1>4, <2>1, <2>2, <2>3, AnswersMove
<1> QED BY <1>5, <1>6, <1>7, <1>8, <1>9, <1>10, <1>11 DEF SubInv

\* p asks as s does.
AlsoAsks(p, s) ==
    /\ p \in Subscribe /\ p.out = s.out /\ Len(p.dialogs) = 1
    /\ p.dialogs[1].local_cseq = s.dialogs[1].local_cseq /\ p.dialogs[1].out = s.dialogs[1].out

\* The dialog that is found or made asks for the same request as before.
LEMMA DialogFound ==
    ASSUME SubInv, NEW c \in DOMAIN js, NEW s, s = FindsDialog(js[c], trs[js[c].out].cseq)
    PROVE  /\ s \in Subscribe /\ Len(s.dialogs) = 1 /\ AlsoAsks(s, s)
           /\ AlsoAsks(js'[c], s) => StillAsks(c)
<1>1. /\ js[c] \in Subscribe /\ js[c].out \in 1 .. Len(trs) /\ Len(js[c].dialogs) <= 1 /\ Len(trs) \in Nat
      /\ eXosip_find_last_out_subscribe(c) \in 1 .. Len(trs)
      /\ js[c].dialogs # << >> =>
           /\ Head(js[c].dialogs) = js[c].dialogs[1] /\ Len(js[c].dialogs) = 1
           /\ js[c].dialogs[1].local_cseq = trs[eXosip_find_last_out_subscribe(c)].cseq /\ js[c].dialogs[1].out # js[c].out
  BY DialogKnown
<1> DEFINE d == Dialog(trs[js[c].out].cseq)
<1>2. d \in Dialogue /\ d.local_cseq = trs[js[c].out].cseq /\ d.out = 0
  <2>1. trs[js[c].out].cseq \in Nat
    BY <1>1, Typed DEF SubInv, Requests
  <2> QED BY <2>1 DEF Dialog, Dialogue
<1> HIDE DEF d
<1>3. /\ s \in Subscribe /\ s.out = js[c].out
      /\ js[c].dialogs # << >> => s.dialogs = js[c].dialogs
      /\ js[c].dialogs = << >> => s.dialogs = <<d>>
  <2>1. CASE js[c].dialogs = << >>
    <3>1. <<d>> \in Seq(Dialogue)
      BY <1>2
    <3>2. s = [js[c] EXCEPT !.dialogs = <<d>>]
      BY <2>1 DEF FindsDialog, d
    <3>3. ASSUME NEW D \in Seq(Dialogue), NEW q, q = [js[c] EXCEPT !.dialogs = D]
          PROVE  q \in Subscribe /\ q.out = js[c].out /\ q.dialogs = D
      BY <1>1, <3>3 DEF Subscribe
    <3> QED BY <2>1, <3>1, <3>2, <3>3
  <2>2. CASE js[c].dialogs # << >>
    BY <1>1, <2>2 DEF FindsDialog
  <2> QED BY <2>1, <2>2
<1>4. Len(s.dialogs) = 1
  <2>1. Len(<<d>>) = 1
    OBVIOUS
  <2> QED BY <1>1, <1>3, <2>1
<1>5. ASSUME AlsoAsks(js'[c], s)
      PROVE  StillAsks(c)
  <2>1. /\ js'[c].out = js[c].out /\ Len(js'[c].dialogs) = 1 /\ js'[c].dialogs # << >>
        /\ Head(js'[c].dialogs) = js'[c].dialogs[1]
        /\ js'[c].dialogs[1].local_cseq = s.dialogs[1].local_cseq /\ js'[c].dialogs[1].out = s.dialogs[1].out
    <3>1. js'[c].dialogs \in Seq(Dialogue) /\ Len(js'[c].dialogs) = 1
      BY <1>5 DEF AlsoAsks, Subscribe
    <3>2. js'[c].dialogs # << >>
      <4>1. \A D \in Seq(Dialogue) : Len(D) = 1 => D # << >>
        OBVIOUS
      <4> QED BY <3>1, <4>1, Zenon
    <3> QED BY <1>3, <1>5, <3>1, <3>2, HeadIsFirst DEF AlsoAsks
  <2>2. CASE js[c].dialogs # << >>
    BY <1>1, <1>3, <2>1, <2>2 DEF StillAsks, eXosip_find_last_out_subscribe
  <2>3. CASE js[c].dialogs = << >>
    <3>1. s.dialogs[1] = d
      <4>1. <<d>>[1] = d
        OBVIOUS
      <4> QED BY <1>3, <2>3, <4>1
    <3>2. eXosip_find_last_out_subscribe(c) = js[c].out
      BY <2>3 DEF eXosip_find_last_out_subscribe
    <3>3. eXosip_find_last_out_subscribe(c)' = js'[c].out
      BY <1>2, <2>1, <3>1 DEF eXosip_find_last_out_subscribe
    <3> QED BY <1>1, <1>2, <2>1, <3>1, <3>2, <3>3 DEF StillAsks
  <2> QED BY <2>2, <2>3
<1> QED BY <1>3, <1>4, <1>5 DEF AlsoAsks

\* An answer asks for nothing.
LEMMA AnsweredAsks ==
    ASSUME NEW s \in Subscribe, Len(s.dialogs) = 1, NEW code \in Nat, NEW k \in Nat
    PROVE  AlsoAsks(Answered(s, code, k), s)
<1>1. s.dialogs \in Seq(Dialogue) /\ s.dialogs[1] \in Dialogue /\ s.dialogs = <<s.dialogs[1]>>
  <2>1. s.dialogs \in Seq(Dialogue)
    BY DEF Subscribe
  <2> QED BY <2>1, LenProperties, ElementOfSeq
<1> DEFINE d == [s.dialogs[1] EXCEPT !.retry = 0]
<1>2. d \in Dialogue /\ d.local_cseq = s.dialogs[1].local_cseq /\ d.out = s.dialogs[1].out
  BY <1>1 DEF Dialogue
<1>3. ASSUME NEW D, D = [s.dialogs EXCEPT ![1] = d]
      PROVE  D \in Seq(Dialogue) /\ Len(D) = 1 /\ D[1] = d
  <2>1. 1 \in 1 .. Len(s.dialogs)
    OBVIOUS
  <2> HIDE DEF d
  <2> QED BY <1>1, <1>2, <1>3, <2>1, ExceptSeq
<1>4. ASSUME NEW D \in Seq(Dialogue), NEW q, q = [[[s EXCEPT !.period = k] EXCEPT !.retry = 0] EXCEPT !.dialogs = D]
      PROVE  q \in Subscribe /\ q.out = s.out /\ q.dialogs = D
  <2>1. ASSUME NEW p \in Subscribe PROVE [p EXCEPT !.period = k] \in Subscribe /\ [p EXCEPT !.period = k].out = p.out
    BY DEF Subscribe
  <2>2. ASSUME NEW p \in Subscribe PROVE [p EXCEPT !.retry = 0] \in Subscribe /\ [p EXCEPT !.retry = 0].out = p.out
    BY DEF Subscribe
  <2>3. ASSUME NEW p \in Subscribe
        PROVE  [p EXCEPT !.dialogs = D] \in Subscribe /\ [p EXCEPT !.dialogs = D].out = p.out
               /\ [p EXCEPT !.dialogs = D].dialogs = D
    BY DEF Subscribe
  <2> QED BY <1>4, <2>1, <2>2, <2>3, ZenonT(60)
<1>5. CASE code <= 199
  BY <1>5 DEF Answered, AlsoAsks
<1>6. CASE ~(code <= 199)
  <2>1. Answered(s, code, k) = [[[s EXCEPT !.period = k] EXCEPT !.retry = 0] EXCEPT !.dialogs = [s.dialogs EXCEPT ![1] = d]]
    <3>1. Answered(s, code, k) = [s EXCEPT !.period = k, !.retry = 0, !.dialogs[1].retry = 0]
      BY <1>6 DEF Answered
    <3>2. [s EXCEPT !.period = k, !.retry = 0, !.dialogs[1].retry = 0]
            = [[[s EXCEPT !.period = k] EXCEPT !.retry = 0] EXCEPT !.dialogs = [s.dialogs EXCEPT ![1] = d]]
      BY <1>1 DEF Subscribe
    <3> QED BY <3>1, <3>2
  <2> HIDE DEF d
  <2>2. PICK D : D = [s.dialogs EXCEPT ![1] = d]
    OBVIOUS
  <2>3. D \in Seq(Dialogue) /\ Len(D) = 1 /\ D[1] = d
    BY <1>3, <2>2
  <2>4. Answered(s, code, k) \in Subscribe /\ Answered(s, code, k).out = s.out /\ Answered(s, code, k).dialogs = D
    BY <1>4, <2>1, <2>2, <2>3
  <2> QED BY <1>2, <2>3, <2>4 DEF AlsoAsks
<1> QED BY <1>5, <1>6

\* The first answer that arrives counts; it may make the dialog, if no NOTIFY has.
LEMMA SubscribeAnsweredStep ==
    ASSUME SubInv, NEW m \in post, cb_rcv_4subscribe(m[1], m[2])
    PROVE  SubInv'
<1>1. PICK t, code : t = m[1] /\ code = m[2] /\ t \in 1 .. Len(trs) /\ code \in Nat /\ m = <<t, code>>
  BY Typed DEF SubInv
<1>2. PICK c : c = trs[t].call
  OBVIOUS
<1>3. /\ <<t, code>> \in post /\ code # 0 /\ trs[t].by = "watcher" /\ post' = post \ {<<t, code>>}
      /\ UNCHANGED <<jn, inbox, seen>>
  BY <1>1 DEF cb_rcv_4subscribe
<1>4. trs' = IF trs[t].state # "trying" THEN trs
             ELSE [trs EXCEPT ![t].answer = code, ![t].state = IF code > 199 THEN "completed" ELSE @]
  BY <1>1 DEF cb_rcv_4subscribe
<1>5. js' = IF trs[t].state # "trying" \/ ~trs[t].known \/ code > 299 \/ c \notin DOMAIN js THEN js
            ELSE [js EXCEPT ![c] = Answered(FindsDialog(@, trs[t].cseq), code, trs[t].expires)]
  BY <1>1, <1>2 DEF cb_rcv_4subscribe
<1>6. /\ trs[t] \in Requests /\ trs[t].state \in {"trying", "completed", "terminated"} /\ c \in Calls
      /\ trs[t].expires \in {0, 600} /\ trs \in Seq(Requests)
  <2>1. trs[t] \in Requests
    BY <1>1, Typed DEF SubInv
  <2>2. trs \in Seq(Requests)
    BY DEF SubInv, SubTypeOK
  <2> QED BY <1>2, <2>1, <2>2 DEF Requests
<1>7. /\ trs' \in Seq(Requests) /\ Len(trs') = Len(trs)
      /\ \A u \in 1 .. Len(trs) :
            /\ Same(trs[u], trs'[u]) /\ trs'[u].served = trs[u].served /\ trs'[u].known = trs[u].known
            /\ u # t => trs'[u] = trs[u]
            /\ trs'[u].state = trs[u].state \/ (trs[u].state = "trying" /\ trs'[u].state = "completed" /\ trs'[u].answer # 0)
            /\ trs'[u].answer = trs[u].answer \/ trs'[u].answer # 0
  <2>1. CASE trs[t].state # "trying"
    <3>1. \A u \in 1 .. Len(trs) : trs[u] \in Requests
      BY Typed DEF SubInv
    <3>2. trs' = trs
      BY <1>4, <2>1
    <3>3. \A u \in 1 .. Len(trs) : Same(trs[u], trs[u])
      BY <3>1 DEF Same
    <3> QED BY <1>6, <3>2, <3>3, Zenon
  <2>2. CASE trs[t].state = "trying"
    <3>1. PICK s \in {"trying", "completed"} : s = IF code > 199 THEN "completed" ELSE trs[t].state
      BY <2>2
    <3> DEFINE p == [trs[t] EXCEPT !.answer = code]
               q == [p EXCEPT !.state = s]
    <3>2. trs' = Replaced(t, q)
      <4>1. trs' = [trs EXCEPT ![t].answer = code, ![t].state = s]
        BY <1>4, <2>2, <3>1
      <4>2. trs = [u \in DOMAIN trs |-> trs[u]] /\ t \in DOMAIN trs
        BY <1>1, <1>6, Typed, SeqDef DEF SubInv
      <4>3. ASSUME NEW a, NEW k
            PROVE  [trs EXCEPT ![t].answer = a, ![t].state = k] = Replaced(t, [[trs[t] EXCEPT !.answer = a] EXCEPT !.state = k])
        BY <1>6, <4>2, ZenonT(60) DEF Replaced, Requests
      <4> QED BY <4>1, <4>3
    <3>3. Same(trs[t], p) /\ p.state = trs[t].state /\ p.answer = code /\ p.known = trs[t].known /\ p.served = trs[t].served
      BY <1>1, <1>6, AnswerFields
    <3> HIDE DEF p
    <3>4. Same(p, q) /\ q.state = s /\ q.answer = p.answer /\ q.known = p.known /\ q.served = p.served
      BY <3>3, StateFields DEF Same
    <3> HIDE DEF q
    <3>5. Same(trs[t], q) /\ q.state = s /\ q.answer = code /\ q.known = trs[t].known /\ q.served = trs[t].served
      BY <3>3, <3>4, SameTwice
    <3>6. /\ trs' \in Seq(Requests) /\ Len(trs') = Len(trs) /\ trs'[t] = q
          /\ \A u \in 1 .. Len(trs) : (u # t => trs'[u] = trs[u]) /\ Same(trs[u], trs'[u])
      BY <1>1, <3>2, <3>5, OneBecomes DEF SubInv
    <3>7. ASSUME NEW u \in 1 .. Len(trs)
          PROVE  /\ trs'[u].served = trs[u].served /\ trs'[u].known = trs[u].known
                 /\ trs'[u].state = trs[u].state \/ (trs[u].state = "trying" /\ trs'[u].state = "completed" /\ trs'[u].answer # 0)
                 /\ trs'[u].answer = trs[u].answer \/ trs'[u].answer # 0
      <4>1. CASE u = t
        BY <1>3, <2>2, <3>1, <3>5, <3>6, <4>1
      <4>2. CASE u # t
        BY <3>6, <4>2
      <4> QED BY <4>1, <4>2
    <3> QED BY <3>6, <3>7
  <2> QED BY <2>1, <2>2
<1>8. Moves
  BY <1>7, SameMoves DEF SubInv, Closed
<1>9. Numbered' /\ OneCSeqEach'
  BY <1>8, KeptSent DEF SubInv, Moves
<1>10. /\ DOMAIN js' = DOMAIN js /\ js' \in [DOMAIN js -> Subscribe] /\ \A d \in DOMAIN js : StillAsks(d)
       /\ \A d \in DOMAIN js : js'[d] = js[d] \/ Reached(d)
  <2>1. ASSUME js' = js
        PROVE  \A d \in DOMAIN js : StillAsks(d)
    BY <2>1, AsksTheSame
  <2>2. js \in [DOMAIN js -> Subscribe]
    BY DEF SubInv, SubTypeOK
  <2>3. CASE trs[t].state # "trying" \/ ~trs[t].known \/ code > 299 \/ c \notin DOMAIN js
    BY <1>5, <2>1, <2>2, <2>3
  <2>4. CASE ~(trs[t].state # "trying" \/ ~trs[t].known \/ code > 299 \/ c \notin DOMAIN js)
    <3>1. c \in DOMAIN js /\ trs[t].state = "trying" /\ code <= 299
      BY <1>1, <2>4
    <3>2. t \in Sent("watcher", c)
      BY <1>1, <1>2, <1>3 DEF Sent
    <3>3. t = eXosip_find_last_out_subscribe(c)
      BY <3>1, <3>2 DEF SubInv, Watching, Latest, Closed
    <3>4. Reached(c)
      <4>1. code \in 1 .. 299
        <5>1. \A x \in Nat : x # 0 /\ x <= 299 => x \in 1 .. 299
          OBVIOUS
        <5>2. code \in Nat /\ code # 0 /\ code <= 299
          BY <1>1, <1>3, <3>1
        <5> QED BY <5>1, <5>2, Zenon
      <4>2. trs[t].served # "no"
        BY <1>1, <1>3, <4>1 DEF SubInv, Answers
      <4> QED BY <3>2, <4>2 DEF Reached
    <3>5. FindsDialog(js[c], trs[t].cseq) = FindsDialog(js[c], trs[js[c].out].cseq)
      <4>1. CASE js[c].dialogs = << >>
        BY <3>3, <4>1 DEF eXosip_find_last_out_subscribe
      <4>2. CASE js[c].dialogs # << >>
        BY <4>2 DEF FindsDialog
      <4> QED BY <4>1, <4>2
    <3> DEFINE s == FindsDialog(js[c], trs[js[c].out].cseq)
    <3>6. PICK k \in Nat : k = trs[t].expires
      BY <1>6
    <3>7. s \in Subscribe /\ Len(s.dialogs) = 1 /\ (AlsoAsks(js'[c], s) => StillAsks(c))
      BY <3>1, DialogFound
    <3>8. js' = [js EXCEPT ![c] = Answered(s, code, k)]
      BY <1>5, <2>4, <3>5, <3>6
    <3> HIDE DEF s
    <3>9. AlsoAsks(Answered(s, code, k), s) /\ Answered(s, code, k) \in Subscribe
      BY <1>1, <3>7, AnsweredAsks DEF AlsoAsks
    <3>10. js'[c] = Answered(s, code, k) /\ Answered(s, code, k) \in Subscribe /\ \A d \in DOMAIN js : d # c => js'[d] = js[d]
      BY <2>2, <3>1, <3>7, <3>8, <3>9
    <3>11. js' \in [DOMAIN js -> Subscribe]
      BY <2>2, <3>1, <3>8, <3>10
    <3>12. \A d \in DOMAIN js : d # c => StillAsks(d)
      BY <3>10, AsksTheSame
    <3>13. StillAsks(c)
      BY <3>7, <3>9, <3>10
    <3> QED BY <3>4, <3>10, <3>11, <3>12, <3>13
  <2> QED BY <2>3, <2>4
<1>11. Watching'
  BY <1>7, <1>8, <1>10, WatchingMoves
<1>12. Subscribed' /\ LastNews' /\ OneOpen' /\ NewsTold'
  <2>1. \A d \in DOMAIN jn : jn[d].inc \in Sent("watcher", d) /\ trs'[jn[d].inc].served # "no"
    BY <1>7 DEF SubInv, Subscribed, Sent
  <2>2. \A u \in 1 .. Len(trs) : trs[u].by = "phone" /\ trs'[u].known /\ ~Closed(u)' => trs[u].call \in DOMAIN jn
    BY <1>3, <1>7 DEF SubInv, OneOpen, Closed
  <2> QED BY <1>3, <1>8, <2>1, <2>2, NotifierMoves
<1>13. HeardWasTold'
  BY <1>3, <1>8, HeardMoves
<1>14. Served'
  <2>1. \A d : Reached(d)' => Reached(d)
    BY <1>7 DEF Reached, Sent, Same
  <2>2. \A d \in DOMAIN js : js'[d].dialogs # << >> => js[d].dialogs # << >> \/ Reached(d)
    BY <1>10
  <2> QED BY <1>3, <1>8, <1>10, <2>1, <2>2, ServedMoves
<1>15. /\ Answers' /\ OnItsWay' /\ Unwatched' /\ Farewell' /\ Delivered'
       /\ post' \subseteq (1 .. Len(trs')) \X Nat /\ inbox' \subseteq 1 .. Len(trs')
  <2>1. Answering({})
    BY <1>3 DEF SubInv, SubTypeOK, Answers, Answering
  <2>2. \A u \in 1 .. Len(trs) : Proceeds(u)
    BY <1>3, <1>7 DEF Proceeds
  <2>3. Delivers
    <3> SUFFICES ASSUME NEW u \in 1 .. Len(trs), trs[u].by = "phone", trs'[u].state = "trying",
                        NEW k \in post, k[1] = u
                 PROVE  trs[u].state = "trying" /\ k \in post'
      BY <1>3, <1>7 DEF Delivers
    <3> QED BY <1>3, <1>7
  <2> QED BY <1>8, <1>10, <2>1, <2>2, <2>3, AnswersMove
<1>16. SubTypeOK'
  BY <1>3, <1>7, <1>10, <1>15 DEF SubInv, SubTypeOK
<1> QED BY <1>9, <1>11, <1>12, <1>13, <1>14, <1>15, <1>16 DEF SubInv

-----------------------------------------------------------------------------
(* A NOTIFY, or the news that a packet is lost. *)

\* Where no request changes, all that is said of requests alone still holds.
LEMMA NothingMoves ==
    ASSUME SubInv, trs' = trs
    PROVE  /\ Moves /\ Numbered' /\ OneCSeqEach'
           /\ \A u \in 1 .. Len(trs) : Closed(u)' = Closed(u) /\ trs[u] \in Requests /\ Same(trs[u], trs'[u])
           /\ \A c : Reached(c)' = Reached(c)
<1>1. \A u \in 1 .. Len(trs) : trs[u] \in Requests /\ Same(trs[u], trs'[u])
  BY Typed DEF SubInv, Same
<1>2. \A u \in 1 .. Len(trs) : Closed(u)' = Closed(u)
  BY DEF Closed
<1>3. Moves
  BY <1>1, <1>2, SameMoves DEF SubInv, SubTypeOK
<1>4. \A c : Reached(c)' = Reached(c)
  BY DEF Reached, Sent
<1> QED BY <1>1, <1>2, <1>3, <1>4, KeptSent DEF SubInv, Moves

\* A lost packet leaves a NOTIFY without an answer, not with a wrong one; a challenge is
\* an answer like any other.
LEMMA TroubleStep ==
    ASSUME SubInv, NEW m \in post, Trouble(m)
    PROVE  SubInv'
<1>1. PICK t, code : t = m[1] /\ code = m[2] /\ t \in 1 .. Len(trs) /\ code \in Nat /\ m = <<t, code>>
  BY Typed DEF SubInv
<1>2. UNCHANGED <<js, jn, trs, inbox>> /\ seen' = [seen EXCEPT !.trouble = @ + 1]
      /\ (post' = post \ {m} \/ (code = 0 /\ post' = (post \ {m}) \cup {<<t, 407>>}))
  BY <1>1 DEF Trouble
<1>3. seen' \in [heard : [Calls -> Nat], news : Nat, trouble : Nat] /\ seen'.heard = seen.heard /\ seen'.news = seen.news
      /\ seen'.trouble # 0
  <2>1. seen \in [heard : [Calls -> Nat], news : Nat, trouble : Nat]
    BY DEF SubInv, SubTypeOK
  <2> QED BY <1>2, <2>1
<1>4. Moves /\ Numbered' /\ OneCSeqEach' /\ \A u \in 1 .. Len(trs) : Closed(u)' = Closed(u)
  BY <1>2, NothingMoves
<1>5. Watching'
  BY <1>2 DEF SubInv, Watching, Latest, Sent, eXosip_find_last_out_subscribe, Closed
<1>6. Subscribed' /\ LastNews' /\ OneOpen' /\ NewsTold' /\ HeardWasTold' /\ Farewell'
  BY <1>2, <1>3 DEF SubInv, Subscribed, LastNews, OneOpen, NewsTold, HeardWasTold, Farewell, Sent, Closed
<1>7. Served'
  <2>1. \A c \in DOMAIN js' : js'[c].dialogs # << >> => js[c].dialogs # << >> \/ Reached(c)
    BY <1>2
  <2> QED BY <1>2, <1>3, <1>4, <2>1, ServedMoves
<1>8. /\ Answers' /\ OnItsWay' /\ Unwatched' /\ Delivered'
      /\ post' \subseteq (1 .. Len(trs')) \X Nat /\ inbox' \subseteq 1 .. Len(trs')
  <2>1. \A t2 \in inbox : t2 \in 1 .. Len(trs) /\ trs[t2].by = "watcher"
    BY DEF SubInv, SubTypeOK, Answers
  <2>2. \A u \in 1 .. Len(trs) : Proceeds(u)
    BY <1>2 DEF Proceeds
  <2>3. Delivers
    BY <1>3 DEF Delivers
  <2>4. CASE post' = post \ {m}
    <3>1. Answering({})
      BY <1>2, <2>1, <2>4 DEF Answering
    <3> QED BY <1>2, <1>4, <2>2, <2>3, <3>1, AnswersMove
  <2>5. CASE code = 0 /\ post' = (post \ {m}) \cup {<<t, 407>>}
    <3>1. <<t, 407>> \in (1 .. Len(trs)) \X (Nat \ {0}) /\ <<t, 0>> \notin post' /\ post' \subseteq post \cup {<<t, 407>>}
      <4>1. 407 \in Nat \ {0}
        OBVIOUS
      <4>2. <<t, 407>> \in (1 .. Len(trs)) \X (Nat \ {0})
        BY <1>1, <4>1
      <4>3. <<t, 0>> # <<t, 407>> /\ m = <<t, 0>>
        BY <1>1, <2>5
      <4> QED BY <2>5, <4>2, <4>3
    <3>2. ASSUME NEW k \in {<<t, 407>>}
          PROVE  /\ k \in (1 .. Len(trs)) \X (Nat \ {0}) /\ k[1] = t /\ k[2] = 407 /\ ~(k[2] <= 299)
                 /\ k[2] \in {200, 407, 481} /\ <<k[1], 0>> \notin post' /\ k[2] # 481 /\ k[2] # 200
      BY <3>1
    <3>3. Answering({<<t, 407>>})
      BY <1>2, <2>1, <3>1, <3>2 DEF Answering
    <3> QED BY <1>2, <1>4, <2>2, <2>3, <3>3, AnswersMove
  <2> QED BY <1>2, <2>4, <2>5
<1>9. SubTypeOK'
  BY <1>2, <1>3, <1>8 DEF SubInv, SubTypeOK
<1> QED BY <1>4, <1>5, <1>6, <1>7, <1>8, <1>9 DEF SubInv

\* The news of a NOTIFY that was received is noted.
Heard(c, news) == [seen EXCEPT !.heard[c] = news]

\* What a NOTIFY tells is all it changes of what is seen.
LEMMA HeardFields ==
    ASSUME SubTypeOK, NEW c \in Calls, NEW news \in Nat, seen' = Heard(c, news)
    PROVE  /\ seen' \in [heard : [Calls -> Nat], news : Nat, trouble : Nat]
           /\ seen'.news = seen.news /\ seen'.trouble = seen.trouble
           /\ \A d \in Calls : seen'.heard[d] = IF d = c THEN news ELSE seen.heard[d]
<1>1. seen \in [heard : [Calls -> Nat], news : Nat, trouble : Nat]
  BY DEF SubTypeOK
<1>2. PICK h \in [Calls -> Nat] : h = [seen.heard EXCEPT ![c] = news]
  BY <1>1
<1>3. seen' = [seen EXCEPT !.heard = h]
  BY <1>1, <1>2 DEF Heard
<1>4. \A d \in Calls : h[d] = IF d = c THEN news ELSE seen.heard[d]
  BY <1>1, <1>2
<1> QED BY <1>1, <1>3, <1>4

\* A NOTIFY arrives and its answer is under way instead.
Replies(t, code) ==
    /\ t \in 1 .. Len(trs) /\ trs[t].by = "phone" /\ <<t, 0>> \in post /\ code \in {200, 481}
    /\ post' = (post \ {<<t, 0>>}) \cup {<<t, code>>} /\ inbox' = inbox
    /\ code = 481 \/ (code = 200 /\ trs[t].status = "terminated") => trs[t].call \notin DOMAIN js'

\* An answer to a NOTIFY takes its place.
LEMMA NotifyAnswered ==
    ASSUME SubInv, NEW t, NEW code, Replies(t, code)
    PROVE  Answering({<<t, code>>})
<1> USE DEF Replies
<1>1. \A u \in inbox : u \in 1 .. Len(trs) /\ trs[u].by = "watcher"
  BY DEF SubInv, SubTypeOK, Answers
<1>2. code \in Nat \ {0} /\ code \in {200, 407, 481}
  OBVIOUS
<1>3. <<t, code>> \in (1 .. Len(trs)) \X (Nat \ {0}) /\ <<t, 0>> # <<t, code>>
  BY <1>2
<1>4. <<t, 0>> \notin post' /\ post' \subseteq post \cup {<<t, code>>}
  BY <1>3
<1>5. ASSUME NEW k \in {<<t, code>>}
      PROVE  k \in (1 .. Len(trs)) \X (Nat \ {0}) /\ k[1] = t /\ k[2] = code
  BY <1>3
<1>6. trs[t].by # "watcher"
  OBVIOUS
<1> QED BY <1>1, <1>2, <1>4, <1>5, <1>6 DEF Answering

\* The news are those of the NOTIFY that has just arrived; "terminated" is accepted by
\* a watcher that forgets the call in the same step.
LEMMA NotifyStep ==
    ASSUME SubInv, NEW m \in post, m[2] = 0, ReceiveNotify(m[1])
    PROVE  SubInv'
<1>1. PICK t : t = m[1] /\ t \in 1 .. Len(trs) /\ m = <<t, 0>>
  BY Typed DEF SubInv
<1>2. PICK c : c = trs[t].call
  OBVIOUS
<1>3. /\ <<t, 0>> \in post /\ trs[t].by = "phone" /\ UNCHANGED <<jn, inbox>>
      /\ IF c \in DOMAIN js THEN eXosip_process_notify_within_dialog(t)
         ELSE post' = (post \ {<<t, 0>>}) \cup {<<t, 481>>} /\ UNCHANGED <<js, trs, seen>>
  BY <1>1, <1>2 DEF ReceiveNotify, eXosip_match_notify_for_subscribe
<1>4. trs[t] \in Requests /\ c \in Calls /\ trs[t].news \in Nat /\ t \in Sent("phone", c) /\ trs \in Seq(Requests)
  <2>1. trs[t] \in Requests
    BY <1>1, Typed DEF SubInv
  <2>2. trs \in Seq(Requests)
    BY DEF SubInv, SubTypeOK
  <2> QED BY <1>1, <1>2, <1>3, <2>1, <2>2 DEF Requests, Sent
<1>5. PICK code \in {200, 481} :
        /\ post' = (post \ {<<t, 0>>}) \cup {<<t, code>>}
        /\ code = IF c \in DOMAIN js THEN 200 ELSE 481
  BY <1>3 DEF eXosip_process_notify_within_dialog
<1> DEFINE ends == c \in DOMAIN js /\ trs[t].status = "terminated"
<1>7. /\ trs' = IF ends THEN Forgets(trs, "watcher", c) ELSE trs
      /\ js' = IF ends THEN Without(js, c)
               ELSE IF c \in DOMAIN js THEN [js EXCEPT ![c] = FindsDialog(@, trs[js[c].out].cseq)] ELSE js
      /\ seen' = IF c \in DOMAIN js THEN Heard(c, trs[t].news) ELSE seen
  BY <1>2, <1>3 DEF eXosip_process_notify_within_dialog, Heard
<1>8. /\ trs' \in Seq(Requests) /\ Len(trs') = Len(trs)
      /\ \A u \in 1 .. Len(trs) :
            /\ Same(trs[u], trs'[u]) /\ trs'[u].state = trs[u].state /\ trs'[u].answer = trs[u].answer
            /\ trs'[u].served = trs[u].served
            /\ trs'[u].known = trs[u].known \/ (ends /\ trs[u].by = "watcher" /\ trs[u].call = c /\ trs'[u].known = FALSE)
  <2>1. CASE ends
    <3>1. trs' = Forgets(trs, "watcher", c)
      BY <1>7, <2>1
    <3>2. trs' \in Seq(Requests) /\ Len(trs') = Len(trs) /\ \A u \in 1 .. Len(trs) : Forgotten(trs[u], trs'[u], "watcher", c)
      BY <1>4, <3>1, ForgottenFields
    <3> QED BY <2>1, <3>2, ZenonT(60) DEF Forgotten
  <2>2. CASE ~ends
    BY <1>4, <1>7, <2>2, NothingMoves
  <2> QED BY <2>1, <2>2
<1>9. Moves
  BY <1>8, SameMoves DEF SubInv, Closed
<1>10. Numbered' /\ OneCSeqEach'
  BY <1>9, KeptSent DEF SubInv, Moves
<1>11. /\ DOMAIN js' \subseteq DOMAIN js /\ js' \in [DOMAIN js' -> Subscribe] /\ \A d \in DOMAIN js' : StillAsks(d)
       /\ \A d \in DOMAIN js' : js'[d] = js[d] \/ d = c
       /\ ends => c \notin DOMAIN js'
  <2>0. js \in [DOMAIN js -> Subscribe]
    BY DEF SubInv, SubTypeOK
  <2>1. CASE ends
    <3>1. /\ DOMAIN js' = DOMAIN js \ {c} /\ \A d \in DOMAIN js' : js'[d] = js[d]
          /\ js' \in [DOMAIN js' -> Subscribe]
      BY <1>7, <2>1, WatcherDropped DEF SubInv
    <3>2. \A d \in DOMAIN js' : StillAsks(d)
      BY <3>1, AsksTheSame
    <3> QED BY <3>1, <3>2
  <2>2. CASE ~ends /\ c \notin DOMAIN js
    BY <1>7, <2>0, <2>2, AsksTheSame
  <2>3. CASE ~ends /\ c \in DOMAIN js
    <3> DEFINE s == FindsDialog(js[c], trs[js[c].out].cseq)
    <3>1. js' = [js EXCEPT ![c] = s]
      BY <1>7, <2>3
    <3>2. s \in Subscribe /\ AlsoAsks(s, s) /\ (AlsoAsks(js'[c], s) => StillAsks(c))
      BY <2>3, DialogFound
    <3> HIDE DEF s
    <3>3. js' \in [DOMAIN js -> Subscribe] /\ js'[c] = s /\ \A d \in DOMAIN js : d # c => js'[d] = js[d]
      BY <2>0, <2>3, <3>1, <3>2
    <3>4. \A d \in DOMAIN js : d # c => StillAsks(d)
      BY <3>3, AsksTheSame
    <3> QED BY <2>3, <3>2, <3>3, <3>4
  <2> QED BY <2>1, <2>2, <2>3
<1>12. Watching'
  <2>1. \A u \in 1 .. Len(trs) : trs[u].by = "watcher" /\ trs[u].call \in DOMAIN js' /\ trs[u].known => trs'[u].known
    BY <1>8, <1>11
  <2> QED BY <1>9, <1>11, <2>1, WatchingMoves
<1>13. seen'.news = seen.news /\ seen'.trouble = seen.trouble
       /\ seen' \in [heard : [Calls -> Nat], news : Nat, trouble : Nat]
       /\ \A d \in Calls : seen'.heard[d] = seen.heard[d] \/ (d = c /\ seen'.heard[d] = trs[t].news)
  <2>1. CASE c \in DOMAIN js
    <3>1. seen' = Heard(c, trs[t].news)
      BY <1>7, <2>1
    <3> QED BY <1>4, <3>1, HeardFields DEF SubInv
  <2>2. CASE c \notin DOMAIN js
    BY <1>7, <2>2 DEF SubInv, SubTypeOK
  <2> QED BY <2>1, <2>2
<1>14. Subscribed' /\ LastNews' /\ OneOpen' /\ NewsTold'
  <2>1. \A d \in DOMAIN jn : jn[d].inc \in Sent("watcher", d) /\ trs'[jn[d].inc].served # "no"
    BY <1>8 DEF SubInv, Subscribed, Sent
  <2>2. \A u \in 1 .. Len(trs) : trs[u].by = "phone" /\ trs'[u].known /\ ~Closed(u)' => trs[u].call \in DOMAIN jn
    BY <1>8 DEF SubInv, OneOpen, Closed
  <2> QED BY <1>3, <1>9, <1>13, <2>1, <2>2, NotifierMoves
<1>15. HeardWasTold'
  BY <1>4, <1>9, <1>13, HeardMoves
<1>16. Served'
  <2>1. \A d : Reached(d)' => Reached(d)
    BY <1>8 DEF Reached, Sent, Same
  <2>2. \A d \in DOMAIN js' : js'[d].dialogs # << >> => js[d].dialogs # << >> \/ Reached(d)
    <3>1. Reached(c)
      BY <1>4 DEF SubInv, Served
    <3> QED BY <1>11, <3>1
  <2> QED BY <1>3, <1>9, <1>11, <1>13, <2>1, <2>2, ServedMoves
<1>17. /\ Answers' /\ OnItsWay' /\ Unwatched' /\ Farewell' /\ Delivered'
       /\ post' \subseteq (1 .. Len(trs')) \X Nat /\ inbox' \subseteq 1 .. Len(trs')
  <2>1. Answering({<<t, code>>})
    <3>1. code = 481 \/ (code = 200 /\ trs[t].status = "terminated") => trs[t].call \notin DOMAIN js'
      <4>1. CASE c \in DOMAIN js
        <5>1. code = 200
          BY <1>5, <4>1
        <5> QED BY <1>2, <1>11, <4>1, <5>1
      <4>2. CASE c \notin DOMAIN js
        BY <1>2, <1>11, <4>2
      <4> QED BY <4>1, <4>2
    <3>2. /\ trs[t].by = "phone" /\ <<t, 0>> \in post /\ code \in {200, 481} /\ t \in 1 .. Len(trs)
          /\ post' = (post \ {<<t, 0>>}) \cup {<<t, code>>} /\ inbox' = inbox
      BY <1>1, <1>3, <1>5
    <3> QED BY <3>1, <3>2, NotifyAnswered DEF Replies
  <2>2. \A u \in 1 .. Len(trs) : Proceeds(u)
    BY <1>8 DEF Proceeds
  <2>3. Delivers
    <3> SUFFICES ASSUME NEW u \in 1 .. Len(trs), trs[u].by = "phone", trs'[u].state = "trying",
                        NEW k \in post, k[1] = u
                 PROVE  trs[u].state = "trying" /\ \E l \in post' : l[1] = u
      <4>1. \A u \in 1 .. Len(trs) : trs'[u].state = trs[u].state
        BY <1>8
      <4> QED BY <1>13, <4>1 DEF Delivers
    <3>1. trs[u].state = "trying"
      BY <1>8
    <3>2. CASE u = t
      <4>1. <<t, code>> \in post' /\ <<t, code>>[1] = t
        BY <1>5
      <4> QED BY <3>1, <3>2, <4>1
    <3>3. CASE u # t
      <4>1. k # <<t, 0>>
        BY <3>3
      <4>2. k \in post'
        BY <1>5, <4>1
      <4> QED BY <3>1, <4>2
    <3> QED BY <3>2, <3>3
  <2> QED BY <1>9, <1>11, <2>1, <2>2, <2>3, AnswersMove
<1>18. SubTypeOK'
  BY <1>3, <1>8, <1>11, <1>13, <1>17 DEF SubInv, SubTypeOK
<1> QED BY <1>10, <1>12, <1>14, <1>15, <1>16, <1>17, <1>18 DEF SubInv

-----------------------------------------------------------------------------
(* The phone receives and answers. *)

\* A SUBSCRIBE is served further.
Marked(t, s) == [trs EXCEPT ![t].served = s]

\* Who is served changes nothing else.
LEMMA MarkedFields ==
    ASSUME SubTypeOK, NEW t \in 1 .. Len(trs), NEW s \in {"proceeding", "completed"}, trs' = Marked(t, s)
    PROVE  /\ trs' \in Seq(Requests) /\ Len(trs') = Len(trs) /\ Moves
           /\ \A u \in 1 .. Len(trs) :
                 /\ Same(trs[u], trs'[u]) /\ trs'[u].state = trs[u].state /\ trs'[u].answer = trs[u].answer
                 /\ trs'[u].known = trs[u].known /\ (u # t => trs'[u].served = trs[u].served)
           /\ trs'[t].served = s
<1> DEFINE q == [trs[t] EXCEPT !.served = s]
<1>1. trs[t] \in Requests /\ trs \in Seq(Requests)
  BY Typed DEF SubTypeOK
<1>2. trs' = Replaced(t, q)
  BY <1>1 DEF Marked, Replaced
<1>3. Same(trs[t], q) /\ q.state = trs[t].state /\ q.answer = trs[t].answer /\ q.known = trs[t].known /\ q.served = s
  BY <1>1, ServedFields
<1> HIDE DEF q
<1>4. /\ trs' \in Seq(Requests) /\ Len(trs') = Len(trs) /\ trs'[t] = q
      /\ \A u \in 1 .. Len(trs) : (u # t => trs'[u] = trs[u]) /\ Same(trs[u], trs'[u])
  BY <1>2, <1>3, OneBecomes
<1>5. ASSUME NEW u \in 1 .. Len(trs)
      PROVE  /\ Same(trs[u], trs'[u]) /\ trs'[u].state = trs[u].state /\ trs'[u].answer = trs[u].answer
             /\ trs'[u].known = trs[u].known /\ (u # t => trs'[u].served = trs[u].served)
  <2>1. CASE u = t
    BY <1>3, <1>4, <2>1
  <2>2. CASE u # t
    BY <1>4, <2>2
  <2> QED BY <2>1, <2>2
<1>6. trs'[t].served = s /\ s # "no"
  BY <1>3, <1>4
<1>7. Moves
  BY <1>4, <1>5, <1>6, SameMoves DEF Closed
<1> QED BY <1>4, <1>5, <1>6, <1>7

\* What the phone knows of the call c after the SUBSCRIBE t.
Takes(t, c) ==
    /\ DOMAIN jn' = DOMAIN jn \cup {c} /\ jn' \in [DOMAIN jn' -> Notifier] /\ \A d \in DOMAIN jn : d # c => jn'[d] = jn[d]
    /\ jn'[c].inc = t \/ (c \in DOMAIN jn /\ jn'[c].inc = jn[c].inc)
    /\ jn'[c].out = 0 \/ (c \in DOMAIN jn /\ jn'[c].out = jn[c].out)
    /\ c \in DOMAIN jn => jn'[c].out = jn[c].out
    /\ jn'[c].status = "terminated" => (c \in DOMAIN jn /\ jn[c].status = "terminated") \/ trs[t].expires = 0

\* A SUBSCRIBE that comes is noted, or refused while the one before it has no answer.
LEMMA SubscribeReceived ==
    ASSUME SubInv, NEW t \in 1 .. Len(trs), ReceiveSubscribe(t), NEW c, c = trs[t].call
    PROVE  /\ Takes(t, c) /\ <<t, 0>> \in post /\ trs[t].by = "watcher" /\ UNCHANGED <<js, seen>>
           /\ \E s \in {"proceeding", "completed"} : trs' = Marked(t, s)
           /\ \E P \in {{}, {<<t, 101>>}, {<<t, 500>>}} : post' = (post \ {<<t, 0>>}) \cup P
           /\ inbox' = inbox \/ inbox' = inbox \cup {t}
<1>1. /\ <<t, 0>> \in post /\ trs[t].by = "watcher" /\ UNCHANGED <<js, seen>>
      /\ IF c \in DOMAIN jn THEN eXosip_process_subscribe_within_call(t) ELSE eXosip_process_new_subscribe(t)
  BY DEF ReceiveSubscribe
<1>2. trs[t] \in Requests /\ trs[t].cseq \in Nat /\ t \in Nat /\ jn \in [DOMAIN jn -> Notifier]
  <2>1. trs[t] \in Requests /\ Len(trs) \in Nat
    BY Typed DEF SubInv
  <2>2. jn \in [DOMAIN jn -> Notifier]
    BY DEF SubInv, SubTypeOK
  <2> QED BY <2>1, <2>2 DEF Requests
<1>3. CASE c \notin DOMAIN jn
  <2> DEFINE n == [inc |-> t, out |-> 0, local_cseq |-> trs[t].cseq, status |-> "none", retry |-> 0]
  <2>1. /\ jn' = With(jn, c, n) /\ post' = (post \ {<<t, 0>>}) \cup {<<t, 101>>} /\ trs' = Marked(t, "proceeding")
        /\ inbox' = inbox \cup {t}
    BY <1>1, <1>3 DEF eXosip_process_new_subscribe, Marked
  <2>2. n \in Notifier /\ n.inc = t /\ n.out = 0 /\ n.status # "terminated"
    BY <1>2 DEF Notifier
  <2> HIDE DEF n
  <2>3. DOMAIN jn' = DOMAIN jn \cup {c} /\ jn'[c] = n /\ jn' \in [DOMAIN jn' -> Notifier] /\ \A d \in DOMAIN jn : d # c => jn'[d] = jn[d]
    BY <1>2, <2>1, <2>2 DEF With
  <2>4. Takes(t, c)
    BY <1>3, <2>2, <2>3 DEF Takes
  <2> QED BY <1>1, <2>1, <2>4
<1>4. CASE c \in DOMAIN jn /\ trs[jn[c].inc].served # "completed"
  <2>1. /\ jn' = jn /\ post' = (post \ {<<t, 0>>}) \cup {<<t, 500>>} /\ trs' = Marked(t, "completed") /\ inbox' = inbox
    BY <1>1, <1>4 DEF eXosip_process_subscribe_within_call, Marked
  <2>2. Takes(t, c)
    BY <1>2, <1>4, <2>1 DEF Takes
  <2> QED BY <1>1, <2>1, <2>2
<1>5. CASE c \in DOMAIN jn /\ ~(trs[jn[c].inc].served # "completed")
  <2>1. PICK k \in {"none", "terminated"} : k = IF trs[t].expires = 0 THEN "terminated" ELSE jn[c].status
    BY <1>2, <1>5 DEF Notifier
  <2>2. jn' = [jn EXCEPT ![c].inc = t, ![c].status = k]
    BY <1>1, <1>5, <2>1 DEF eXosip_process_subscribe_within_call
  <2>3. post' = (post \ {<<t, 0>>}) \cup {} /\ trs' = Marked(t, "proceeding") /\ inbox' = inbox \cup {t}
    BY <1>1, <1>5 DEF eXosip_process_subscribe_within_call, Marked
  <2>4. ASSUME NEW n \in Notifier
        PROVE  /\ [n EXCEPT !.inc = t] \in Notifier /\ [n EXCEPT !.inc = t].inc = t
               /\ [n EXCEPT !.inc = t].out = n.out
    BY <1>2 DEF Notifier
  <2>5. ASSUME NEW n \in Notifier
        PROVE  /\ [n EXCEPT !.status = k] \in Notifier /\ [n EXCEPT !.status = k].inc = n.inc
               /\ [n EXCEPT !.status = k].out = n.out /\ [n EXCEPT !.status = k].status = k
    BY DEF Notifier
  <2> DEFINE n == [[jn[c] EXCEPT !.inc = t] EXCEPT !.status = k]
  <2>6. jn' = [jn EXCEPT ![c] = n]
    BY <1>2, <2>2 DEF Notifier
  <2>7. n \in Notifier /\ n.inc = t /\ n.out = jn[c].out /\ n.status = k
    BY <1>2, <1>5, <2>4, <2>5
  <2> HIDE DEF n
  <2>8. DOMAIN jn' = DOMAIN jn /\ jn'[c] = n /\ jn' \in [DOMAIN jn' -> Notifier] /\ \A d \in DOMAIN jn : d # c => jn'[d] = jn[d]
    BY <1>2, <1>5, <2>6, <2>7
  <2>9. Takes(t, c)
    BY <1>5, <2>1, <2>7, <2>8 DEF Takes
  <2> QED BY <1>1, <2>3, <2>9
<1> QED BY <1>3, <1>4, <1>5

\* Only a SUBSCRIBE with Expires 0 ends a subscription of the phone's.
LEMMA SubscribeStep ==
    ASSUME SubInv, NEW m \in post, m[2] = 0, ReceiveSubscribe(m[1])
    PROVE  SubInv'
<1>1. PICK t \in 1 .. Len(trs) : t = m[1]
  BY Typed DEF SubInv
<1>2. PICK c : c = trs[t].call
  OBVIOUS
<1>3. ReceiveSubscribe(t)
  BY <1>1
<1>4. /\ Takes(t, c) /\ <<t, 0>> \in post /\ trs[t].by = "watcher" /\ UNCHANGED <<js, seen>>
      /\ \E s \in {"proceeding", "completed"} : trs' = Marked(t, s)
      /\ \E P \in {{}, {<<t, 101>>}, {<<t, 500>>}} : post' = (post \ {<<t, 0>>}) \cup P
      /\ inbox' = inbox \/ inbox' = inbox \cup {t}
  BY <1>2, <1>3, SubscribeReceived
<1>5. PICK s \in {"proceeding", "completed"} : trs' = Marked(t, s)
  BY <1>4
<1>6. /\ trs' \in Seq(Requests) /\ Len(trs') = Len(trs) /\ Moves
      /\ \A u \in 1 .. Len(trs) :
            /\ Same(trs[u], trs'[u]) /\ trs'[u].state = trs[u].state /\ trs'[u].answer = trs[u].answer
            /\ trs'[u].known = trs[u].known /\ (u # t => trs'[u].served = trs[u].served)
      /\ trs'[t].served = s
  BY <1>5, MarkedFields DEF SubInv
<1>7. c \in Calls /\ t \in Sent("watcher", c) /\ s # "no"
  BY <1>2, <1>4, Typed DEF SubInv, Sent, Requests
<1>8. Numbered' /\ OneCSeqEach'
  BY <1>6, KeptSent DEF SubInv, Moves
<1>9. Watching'
  <2>1. \A d \in DOMAIN js : StillAsks(d)
    BY <1>4, AsksTheSame
  <2>2. js' = js
    BY <1>4
  <2> QED BY <1>6, <2>1, <2>2, WatchingMoves
<1>10. Subscribed' /\ LastNews' /\ OneOpen' /\ NewsTold'
  <2>1. ASSUME NEW d \in DOMAIN jn'
        PROVE  /\ jn'[d].inc \in Sent("watcher", d) /\ trs'[jn'[d].inc].served # "no"
               /\ jn'[d].status = "terminated" => (d \in DOMAIN jn /\ jn[d].status = "terminated") \/ GivenUp(d)
               /\ jn'[d].out = 0 \/ (d \in DOMAIN jn /\ jn'[d].out = jn[d].out)
    <3>1. \A e \in DOMAIN jn : jn[e].inc \in Sent("watcher", e) /\ trs'[jn[e].inc].served # "no"
      BY <1>6, <1>7 DEF SubInv, Subscribed, Sent
    <3>2. CASE d # c
      <4>1. d \in DOMAIN jn /\ jn'[d] = jn[d]
        BY <1>4, <3>2 DEF Takes
      <4> QED BY <3>1, <4>1
    <3>3. CASE d = c
      <4>1. jn'[c].inc = t \/ (c \in DOMAIN jn /\ jn'[c].inc = jn[c].inc)
        BY <1>4 DEF Takes
      <4>2. jn'[c].inc \in Sent("watcher", c) /\ trs'[jn'[c].inc].served # "no"
        BY <1>6, <1>7, <3>1, <4>1
      <4>3. jn'[c].status = "terminated" => (c \in DOMAIN jn /\ jn[c].status = "terminated") \/ GivenUp(c)
        BY <1>4, <1>7 DEF Takes, GivenUp
      <4>4. jn'[c].out = 0 \/ (c \in DOMAIN jn /\ jn'[c].out = jn[c].out)
        BY <1>4 DEF Takes
      <4> QED BY <3>3, <4>2, <4>3, <4>4
    <3> QED BY <3>2, <3>3
  <2>2. \A u \in 1 .. Len(trs) : trs[u].by = "phone" /\ trs'[u].known /\ ~Closed(u)' =>
           trs[u].call \in DOMAIN jn' /\ (trs[u].call \in DOMAIN jn => jn'[trs[u].call].out = jn[trs[u].call].out)
    <3>1. \A u \in 1 .. Len(trs) : trs[u].by = "phone" /\ trs'[u].known /\ ~Closed(u)' => trs[u].call \in DOMAIN jn
      BY <1>6 DEF SubInv, OneOpen, Closed
    <3>2. \A d \in DOMAIN jn : d \in DOMAIN jn' /\ jn'[d].out = jn[d].out
      BY <1>4 DEF Takes
    <3> QED BY <3>1, <3>2
  <2>3. seen'.news = seen.news
    BY <1>4
  <2> QED BY <1>6, <2>1, <2>2, <2>3, NotifierMoves
<1>11. HeardWasTold'
  BY <1>4, <1>6, HeardMoves
<1>12. Served'
  <2>1. ASSUME NEW d, Reached(d)'
        PROVE  Reached(d) \/ d \in DOMAIN jn'
    <3>1. CASE d = c
      BY <1>4, <3>1 DEF Takes
    <3>2. CASE d # c
      BY <1>2, <1>6, <2>1, <3>2 DEF Reached, Sent, Same
    <3> QED BY <3>1, <3>2
  <2>2. DOMAIN jn \subseteq DOMAIN jn' /\ js' = js /\ seen'.trouble = seen.trouble
    BY <1>4 DEF Takes
  <2> QED BY <1>6, <2>1, <2>2, ServedMoves
<1>13. /\ Answers' /\ OnItsWay' /\ Unwatched' /\ Farewell' /\ Delivered'
       /\ post' \subseteq (1 .. Len(trs')) \X Nat /\ inbox' \subseteq 1 .. Len(trs')
  <2>1. PICK P \in {{}, {<<t, 101>>}, {<<t, 500>>}} : post' = (post \ {<<t, 0>>}) \cup P
    BY <1>4
  <2>2. Answering(P)
    <3>1. \A u \in inbox' : u \in 1 .. Len(trs) /\ trs[u].by = "watcher"
      BY <1>1, <1>4 DEF SubInv, SubTypeOK, Answers
    <3>2. post' \subseteq post \cup P
      BY <2>1
    <3>3. ASSUME NEW k \in P
          PROVE  k \in (1 .. Len(trs)) \X (Nat \ {0}) /\ trs[k[1]].by # "phone" /\ trs'[k[1]].served # "no"
      <4>1. k = <<t, 101>> \/ k = <<t, 500>>
        BY <2>1
      <4>2. k \in (1 .. Len(trs)) \X (Nat \ {0})
        BY <1>1, <4>1
      <4>3. k[1] = t
        BY <4>1
      <4> QED BY <1>4, <1>6, <1>7, <4>2, <4>3
    <3> QED BY <3>1, <3>2, <3>3 DEF Answering
  <2>3. \A u \in 1 .. Len(trs) : Proceeds(u)
    BY <1>6 DEF Proceeds
  <2>4. Delivers
    <3>1. \A u \in 1 .. Len(trs) : trs'[u].state = trs[u].state
      BY <1>6
    <3>2. ASSUME NEW u \in 1 .. Len(trs), trs[u].by = "phone", NEW k \in post, k[1] = u
          PROVE  k \in post'
      <4>1. k # <<t, 0>>
        BY <1>4, <3>2
      <4> QED BY <2>1, <4>1
    <3> QED BY <1>4, <3>1, <3>2 DEF Delivers
  <2>5. js' = js
    BY <1>4
  <2> QED BY <1>6, <2>2, <2>3, <2>4, <2>5, AnswersMove
<1>14. SubTypeOK'
  <2>1. DOMAIN jn' \subseteq Calls /\ jn' \in [DOMAIN jn' -> Notifier]
    BY <1>4, <1>7 DEF SubInv, SubTypeOK, Takes
  <2> QED BY <1>4, <1>6, <1>13, <2>1 DEF SubInv, SubTypeOK
<1> QED BY <1>8, <1>9, <1>10, <1>11, <1>12, <1>13, <1>14 DEF SubInv

\* Who can be answered was received.
LEMMA CanAnswerServed ==
    ASSUME SubInv, NEW t \in inbox, CanAnswer(t)
    PROVE  t \in 1 .. Len(trs) /\ trs[t].served # "no" /\ trs[t].by = "watcher" /\ trs[t].call \in DOMAIN jn
<1>1. t \in 1 .. Len(trs) /\ trs[t].by = "watcher"
  BY DEF SubInv, SubTypeOK, Answers
<1>2. trs[t].call \in DOMAIN jn /\ jn[trs[t].call].inc = t
  BY DEF CanAnswer, _eXosip_insubscription_transaction_find
<1>3. trs[t].served # "no"
  BY <1>2 DEF SubInv, Subscribed
<1> QED BY <1>1, <1>2, <1>3

\* The application answers a SUBSCRIBE that the phone knows still, or none.
LEMMA SendAnswerStep ==
    ASSUME SubInv, NEW t \in inbox, NEW code \in {202, 403}, eXosip_insubscription_send_answer(t, code)
    PROVE  SubInv'
<1>1. UNCHANGED <<js, jn, seen>> /\ inbox' = inbox \ {t}
  BY DEF eXosip_insubscription_send_answer
<1>2. t \in 1 .. Len(trs) /\ trs[t].by = "watcher"
  BY DEF SubInv, SubTypeOK, Answers
<1>3. PICK P : post' = post \cup P /\ P = IF CanAnswer(t) THEN {<<t, code>>} ELSE {}
  <2>1. CASE CanAnswer(t)
    BY <2>1 DEF eXosip_insubscription_send_answer
  <2>2. CASE ~CanAnswer(t)
    BY <2>2 DEF eXosip_insubscription_send_answer
  <2> QED BY <2>1, <2>2
<1>4. /\ trs' \in Seq(Requests) /\ Len(trs') = Len(trs) /\ Moves
      /\ \A u \in 1 .. Len(trs) :
            /\ Same(trs[u], trs'[u]) /\ trs'[u].state = trs[u].state /\ trs'[u].answer = trs[u].answer
            /\ trs'[u].known = trs[u].known /\ (trs'[u].served = "no" <=> trs[u].served = "no")
  <2>1. CASE CanAnswer(t)
    <3>1. trs' = Marked(t, "completed") /\ trs[t].served # "no"
      BY <2>1, CanAnswerServed DEF eXosip_insubscription_send_answer, Marked
    <3>2. /\ trs' \in Seq(Requests) /\ Len(trs') = Len(trs) /\ Moves
          /\ \A u \in 1 .. Len(trs) :
                /\ Same(trs[u], trs'[u]) /\ trs'[u].state = trs[u].state /\ trs'[u].answer = trs[u].answer
                /\ trs'[u].known = trs[u].known /\ (u # t => trs'[u].served = trs[u].served)
          /\ trs'[t].served = "completed"
      BY <1>2, <3>1, MarkedFields DEF SubInv
    <3>3. \A u \in 1 .. Len(trs) : trs'[u].served = "no" <=> trs[u].served = "no"
      <4> SUFFICES ASSUME NEW u \in 1 .. Len(trs) PROVE trs'[u].served = "no" <=> trs[u].served = "no"
        OBVIOUS
      <4>1. CASE u = t
        BY <3>1, <3>2, <4>1
      <4>2. CASE u # t
        BY <3>2, <4>2
      <4> QED BY <4>1, <4>2
    <3> QED BY <3>2, <3>3
  <2>2. CASE ~CanAnswer(t)
    <3>1. trs' = trs
      BY <2>2 DEF eXosip_insubscription_send_answer
    <3>2. Moves /\ \A u \in 1 .. Len(trs) : Same(trs[u], trs'[u])
      BY <3>1, NothingMoves
    <3>3. trs \in Seq(Requests)
      BY DEF SubInv, SubTypeOK
    <3> QED BY <3>1, <3>2, <3>3
  <2> QED BY <2>1, <2>2
<1>5. Numbered' /\ OneCSeqEach'
  BY <1>4, KeptSent DEF SubInv, Moves
<1>6. Watching'
  <2>1. \A d \in DOMAIN js : StillAsks(d)
    BY <1>1, AsksTheSame
  <2> QED BY <1>1, <1>4, <2>1, WatchingMoves
<1>7. Subscribed' /\ LastNews' /\ OneOpen' /\ NewsTold'
  <2>1. \A d \in DOMAIN jn : jn[d].inc \in Sent("watcher", d) /\ trs'[jn[d].inc].served # "no"
    BY <1>4 DEF SubInv, Subscribed, Sent
  <2>2. \A u \in 1 .. Len(trs) : trs[u].by = "phone" /\ trs'[u].known /\ ~Closed(u)' => trs[u].call \in DOMAIN jn
    BY <1>4 DEF SubInv, OneOpen, Closed
  <2> QED BY <1>1, <1>4, <2>1, <2>2, NotifierMoves
<1>8. HeardWasTold'
  BY <1>1, <1>4, HeardMoves
<1>9. Served'
  <2>1. \A d : Reached(d)' => Reached(d)
    BY <1>4 DEF Reached, Sent, Same
  <2> QED BY <1>1, <1>4, <2>1, ServedMoves
<1>10. /\ Answers' /\ OnItsWay' /\ Unwatched' /\ Farewell' /\ Delivered'
       /\ post' \subseteq (1 .. Len(trs')) \X Nat /\ inbox' \subseteq 1 .. Len(trs')
  <2>1. Answering(P)
    <3>1. \A u \in inbox' : u \in 1 .. Len(trs) /\ trs[u].by = "watcher"
      BY <1>1 DEF SubInv, SubTypeOK, Answers
    <3>2. ASSUME NEW k \in P
          PROVE  k \in (1 .. Len(trs)) \X (Nat \ {0}) /\ trs[k[1]].by # "phone" /\ trs'[k[1]].served # "no"
      <4>1. CanAnswer(t) /\ k = <<t, code>>
        BY <1>3
      <4>2. trs[t].served # "no"
        BY <4>1, CanAnswerServed
      <4>3. code \in Nat \ {0}
        OBVIOUS
      <4>4. k \in (1 .. Len(trs)) \X (Nat \ {0}) /\ k[1] = t
        BY <1>2, <4>1, <4>3
      <4> QED BY <1>2, <1>4, <4>2, <4>4
    <3> QED BY <1>3, <3>1, <3>2 DEF Answering
  <2>2. \A u \in 1 .. Len(trs) : Proceeds(u)
    BY <1>4 DEF Proceeds
  <2>3. Delivers
    <3>1. \A u \in 1 .. Len(trs) : trs'[u].state = trs[u].state
      BY <1>4
    <3> QED BY <1>1, <1>3, <3>1 DEF Delivers
  <2> QED BY <1>1, <1>4, <2>1, <2>2, <2>3, AnswersMove
<1>11. SubTypeOK'
  BY <1>1, <1>4, <1>10 DEF SubInv, SubTypeOK
<1> QED BY <1>5, <1>6, <1>7, <1>8, <1>9, <1>10, <1>11 DEF SubInv

\* A subscription that the application removes is a trouble: its watcher goes unserved.
LEMMA NotifierRemovedStep ==
    ASSUME SubInv, NEW c \in DOMAIN jn, eXosip_insubscription_remove(c)
    PROVE  SubInv'
<1>1. /\ jn' = Without(jn, c) /\ trs' = Forgets(trs, "phone", c) /\ UNCHANGED <<js, post, inbox>>
      /\ seen' = [seen EXCEPT !.trouble = @ + 1]
  BY DEF eXosip_insubscription_remove
<1>2. seen' \in [heard : [Calls -> Nat], news : Nat, trouble : Nat] /\ seen'.heard = seen.heard /\ seen'.news = seen.news
      /\ seen'.trouble # 0
  <2>1. seen \in [heard : [Calls -> Nat], news : Nat, trouble : Nat]
    BY DEF SubInv, SubTypeOK
  <2> QED BY <1>1, <2>1
<1>3. /\ trs' \in Seq(Requests) /\ Len(trs') = Len(trs)
      /\ \A u \in 1 .. Len(trs) :
            /\ Same(trs[u], trs'[u]) /\ trs'[u].state = trs[u].state /\ trs'[u].answer = trs[u].answer
            /\ trs'[u].served = trs[u].served
            /\ trs'[u].known = IF trs[u].by = "phone" /\ trs[u].call = c THEN FALSE ELSE trs[u].known
  <2>1. trs \in Seq(Requests)
    BY DEF SubInv, SubTypeOK
  <2>2. trs' \in Seq(Requests) /\ Len(trs') = Len(trs) /\ \A u \in 1 .. Len(trs) : Forgotten(trs[u], trs'[u], "phone", c)
    BY <1>1, <2>1, ForgottenFields
  <2> QED BY <2>2 DEF Forgotten
<1>4. /\ DOMAIN jn' = DOMAIN jn \ {c} /\ \A d \in DOMAIN jn' : jn'[d] = jn[d]
      /\ DOMAIN jn' \subseteq Calls /\ jn' \in [DOMAIN jn' -> Notifier]
  BY <1>1, PhoneDropped DEF SubInv
<1>5. Moves
  BY <1>3, SameMoves DEF SubInv, Closed
<1>6. Numbered' /\ OneCSeqEach'
  BY <1>5, KeptSent DEF SubInv, Moves
<1>7. Watching'
  <2>1. \A d \in DOMAIN js : StillAsks(d)
    BY <1>1, AsksTheSame
  <2>2. \A u \in 1 .. Len(trs) : trs[u].by = "watcher" /\ trs[u].known => trs'[u].known
    BY <1>3
  <2> QED BY <1>1, <1>5, <2>1, <2>2, WatchingMoves
<1>8. Subscribed' /\ LastNews' /\ OneOpen' /\ NewsTold'
  <2>1. \A d \in DOMAIN jn' : jn'[d].inc \in Sent("watcher", d) /\ trs'[jn'[d].inc].served # "no"
    <3>1. \A d \in DOMAIN jn : jn[d].inc \in 1 .. Len(trs) /\ jn[d].inc \in Sent("watcher", d) /\ trs[jn[d].inc].served # "no"
      BY DEF SubInv, Subscribed, Sent
    <3>2. \A d \in DOMAIN jn' : d \in DOMAIN jn /\ jn'[d].inc = jn[d].inc
      BY <1>4
    <3> QED BY <1>3, <3>1, <3>2
  <2>2. \A u \in 1 .. Len(trs) : trs[u].by = "phone" /\ trs'[u].known /\ ~Closed(u)' =>
           trs[u].call \in DOMAIN jn' /\ (trs[u].call \in DOMAIN jn => jn'[trs[u].call].out = jn[trs[u].call].out)
    <3>1. \A u \in 1 .. Len(trs) : trs[u].by = "phone" /\ trs'[u].known /\ ~Closed(u)' =>
             trs[u].call \in DOMAIN jn /\ trs[u].call # c
      BY <1>3 DEF SubInv, OneOpen, Closed
    <3> QED BY <1>4, <3>1
  <2> QED BY <1>2, <1>4, <1>5, <2>1, <2>2, NotifierMoves
<1>9. HeardWasTold'
  BY <1>2, <1>5, HeardMoves
<1>10. Served'
  <2>1. \A d \in DOMAIN js' : js'[d].dialogs # << >> => js[d].dialogs # << >> \/ Reached(d)
    BY <1>1
  <2> QED BY <1>1, <1>2, <1>5, <2>1, ServedMoves
<1>11. /\ Answers' /\ OnItsWay' /\ Unwatched' /\ Farewell' /\ Delivered'
       /\ post' \subseteq (1 .. Len(trs')) \X Nat /\ inbox' \subseteq 1 .. Len(trs')
  <2>1. Answering({})
    BY <1>1 DEF SubInv, SubTypeOK, Answers, Answering
  <2>2. \A u \in 1 .. Len(trs) : Proceeds(u)
    BY <1>3 DEF Proceeds
  <2>3. Delivers
    BY <1>2 DEF Delivers
  <2> QED BY <1>1, <1>5, <2>1, <2>2, <2>3, AnswersMove
<1>12. SubTypeOK'
  BY <1>1, <1>2, <1>3, <1>4, <1>11 DEF SubInv, SubTypeOK
<1> QED BY <1>6, <1>7, <1>8, <1>9, <1>10, <1>11, <1>12 DEF SubInv

\* What the phone counts and notes of a NOTIFY.
Counted(f, c, k) == [f EXCEPT ![c].local_cseq = k]
Tried(f, c, k) == [f EXCEPT ![c].retry = k]
Out(f, c, o) == [f EXCEPT ![c].out = o]

\* What the phone notes of a NOTIFY changes no subscription but its own.
LEMMA NoteFields ==
    ASSUME NEW C, NEW f \in [C -> Notifier], NEW c \in C, NEW k \in Nat
    PROVE  /\ Counted(f, c, k) \in [C -> Notifier] /\ Tried(f, c, k) \in [C -> Notifier] /\ Out(f, c, k) \in [C -> Notifier]
           /\ \A d \in C : d # c => Counted(f, c, k)[d] = f[d] /\ Tried(f, c, k)[d] = f[d] /\ Out(f, c, k)[d] = f[d]
           /\ Counted(f, c, k)[c].inc = f[c].inc /\ Counted(f, c, k)[c].status = f[c].status
           /\ Tried(f, c, k)[c].inc = f[c].inc /\ Tried(f, c, k)[c].status = f[c].status /\ Tried(f, c, k)[c].out = f[c].out
           /\ Out(f, c, k)[c].inc = f[c].inc /\ Out(f, c, k)[c].status = f[c].status /\ Out(f, c, k)[c].out = k
<1>1. f[c] \in Notifier
  OBVIOUS
<1>2. /\ [f[c] EXCEPT !.local_cseq = k] \in Notifier /\ [f[c] EXCEPT !.retry = k] \in Notifier
      /\ [f[c] EXCEPT !.out = k] \in Notifier
  BY <1>1 DEF Notifier
<1>3. /\ Counted(f, c, k) = [f EXCEPT ![c] = [f[c] EXCEPT !.local_cseq = k]]
      /\ Tried(f, c, k) = [f EXCEPT ![c] = [f[c] EXCEPT !.retry = k]]
      /\ Out(f, c, k) = [f EXCEPT ![c] = [f[c] EXCEPT !.out = k]]
  BY DEF Counted, Tried, Out
<1>4. ASSUME NEW q \in Notifier
      PROVE  [f EXCEPT ![c] = q] \in [C -> Notifier] /\ [f EXCEPT ![c] = q][c] = q
             /\ \A d \in C : d # c => [f EXCEPT ![c] = q][d] = f[d]
  OBVIOUS
<1>5. /\ [f[c] EXCEPT !.local_cseq = k].inc = f[c].inc /\ [f[c] EXCEPT !.local_cseq = k].status = f[c].status
      /\ [f[c] EXCEPT !.retry = k].inc = f[c].inc /\ [f[c] EXCEPT !.retry = k].status = f[c].status
      /\ [f[c] EXCEPT !.retry = k].out = f[c].out
      /\ [f[c] EXCEPT !.out = k].inc = f[c].inc /\ [f[c] EXCEPT !.out = k].status = f[c].status
      /\ [f[c] EXCEPT !.out = k].out = k
  BY <1>1 DEF Notifier
<1>6. Counted(f, c, k) \in [C -> Notifier] /\ Counted(f, c, k)[c] = [f[c] EXCEPT !.local_cseq = k]
      /\ \A d \in C : d # c => Counted(f, c, k)[d] = f[d]
  BY <1>2, <1>3, <1>4
<1>7. Tried(f, c, k) \in [C -> Notifier] /\ Tried(f, c, k)[c] = [f[c] EXCEPT !.retry = k]
      /\ \A d \in C : d # c => Tried(f, c, k)[d] = f[d]
  BY <1>2, <1>3, <1>4
<1>8. Out(f, c, k) \in [C -> Notifier] /\ Out(f, c, k)[c] = [f[c] EXCEPT !.out = k]
      /\ \A d \in C : d # c => Out(f, c, k)[d] = f[d]
  BY <1>2, <1>3, <1>4
<1> QED BY <1>5, <1>6, <1>7, <1>8

-----------------------------------------------------------------------------
(* The ends of transactions. *)

\* One transaction changes, and with it all of its subscription may be forgotten.
Ends(t, q, by, c) ==
    /\ Same(trs[t], q) /\ q.served = trs[t].served /\ q.known = trs[t].known
    /\ trs' = Replaced(t, q) \/ trs' = Forgets(Replaced(t, q), by, c)

Ended(t, q, by, c) ==
    /\ trs' \in Seq(Requests) /\ Len(trs') = Len(trs)
    /\ \A u \in 1 .. Len(trs) :
          /\ Same(trs[u], trs'[u]) /\ trs'[u].served = trs[u].served
          /\ u # t => trs'[u].state = trs[u].state /\ trs'[u].answer = trs[u].answer
          /\ trs'[u].known = trs[u].known \/ (trs[u].by = by /\ trs[u].call = c /\ trs'[u].known = FALSE)
    /\ trs'[t].state = q.state /\ trs'[t].answer = q.answer

\* One transaction ends, with its subscription or without.
LEMMA OneEnds ==
    ASSUME SubTypeOK, NEW t \in 1 .. Len(trs), NEW q, NEW by, NEW c, Ends(t, q, by, c)
    PROVE  /\ Ended(t, q, by, c)
           /\ trs' = Forgets(Replaced(t, q), by, c) =>
                 \A u \in 1 .. Len(trs) : trs[u].by = by /\ trs[u].call = c => trs'[u].known = FALSE
<1> DEFINE now == Replaced(t, q)
<1> USE DEF Ends, Ended
<1>1. /\ now \in Seq(Requests) /\ Len(now) = Len(trs) /\ now[t] = q
      /\ \A u \in 1 .. Len(trs) : (u # t => now[u] = trs[u]) /\ Same(trs[u], now[u])
  BY OneBecomes
<1> HIDE DEF now
<1>2. ASSUME NEW u \in 1 .. Len(trs)
      PROVE  /\ Same(trs[u], now[u]) /\ now[u].served = trs[u].served /\ now[u].known = trs[u].known
             /\ u # t => now[u].state = trs[u].state /\ now[u].answer = trs[u].answer
             /\ now[u].by = trs[u].by /\ now[u].call = trs[u].call
  <2>1. CASE u = t
    BY <1>1, <2>1 DEF Same
  <2>2. CASE u # t
    BY <1>1, <2>2 DEF Same
  <2> QED BY <2>1, <2>2
<1>3. CASE trs' = now /\ trs' # Forgets(now, by, c)
  BY <1>1, <1>2, <1>3 DEF now
<1>4. CASE trs' = Forgets(now, by, c)
  <2>1. /\ trs' \in Seq(Requests) /\ Len(trs') = Len(now)
        /\ \A u \in 1 .. Len(now) : Forgotten(now[u], trs'[u], by, c)
    BY <1>1, <1>4, ForgottenFields
  <2>2. ASSUME NEW u \in 1 .. Len(trs)
        PROVE  /\ Same(trs[u], trs'[u]) /\ trs'[u].served = trs[u].served
               /\ trs'[u].state = now[u].state /\ trs'[u].answer = now[u].answer
               /\ u # t => trs'[u].state = trs[u].state /\ trs'[u].answer = trs[u].answer
               /\ trs'[u].known = trs[u].known \/ (trs[u].by = by /\ trs[u].call = c /\ trs'[u].known = FALSE)
               /\ trs[u].by = by /\ trs[u].call = c => trs'[u].known = FALSE
    <3>1. Forgotten(now[u], trs'[u], by, c)
      BY <1>1, <2>1
    <3>2. Same(trs[u], trs'[u])
      BY <1>2, <3>1, SameTwice DEF Forgotten
    <3>3. /\ trs'[u].served = now[u].served /\ trs'[u].state = now[u].state /\ trs'[u].answer = now[u].answer
          /\ trs'[u].known = IF now[u].by = by /\ now[u].call = c THEN FALSE ELSE now[u].known
      BY <3>1 DEF Forgotten
    <3> QED BY <1>2, <3>2, <3>3
  <2> QED BY <1>1, <2>1, <2>2
<1>5. trs' = now \/ trs' = Forgets(now, by, c)
  BY DEF now
<1> QED BY <1>3, <1>4, <1>5

\* The answer to a NOTIFY closes it; where that ends the subscription, "terminated" has
\* been accepted and nobody watches.
LEMMA NotifyAnsweredStep ==
    ASSUME SubInv, NEW m \in post, cb_rcv_4notify(m[1], m[2])
    PROVE  SubInv'
<1>1. PICK t, code : t = m[1] /\ code = m[2] /\ t \in 1 .. Len(trs) /\ code \in Nat /\ m = <<t, code>>
  BY Typed DEF SubInv
<1>2. PICK c : c = trs[t].call
  OBVIOUS
<1> DEFINE accepted == trs[t].state = "trying" /\ trs[t].known /\ code = 200
           ends == accepted /\ trs[t].status = "terminated"
           now == IF trs[t].state = "trying" THEN [trs EXCEPT ![t].answer = code, ![t].state = "completed"] ELSE trs
<1>3. /\ <<t, code>> \in post /\ code # 0 /\ trs[t].by = "phone" /\ post' = post \ {<<t, code>>}
      /\ UNCHANGED <<js, inbox, seen>>
  BY <1>1 DEF cb_rcv_4notify
<1>4. trs' = IF ends THEN Forgets(now, "phone", c) ELSE now
  BY <1>1, <1>2 DEF cb_rcv_4notify
<1>5. jn' = IF ends THEN Without(jn, c) ELSE IF accepted THEN Accepted(c) ELSE jn
  BY <1>1, <1>2 DEF cb_rcv_4notify
<1>6. /\ trs[t] \in Requests /\ c \in Calls /\ trs \in Seq(Requests)
      /\ code \in {200, 407, 481}
      /\ code = 481 \/ (code = 200 /\ trs[t].status = "terminated") => c \notin DOMAIN js
  <2>1. trs[t] \in Requests /\ trs \in Seq(Requests)
    BY <1>1, Typed DEF SubInv, SubTypeOK
  <2>2. code \in {0, 200, 407, 481}
    BY <1>1, <1>3 DEF SubInv, Answers
  <2>3. code = 481 \/ (code = 200 /\ trs[t].status = "terminated") => c \notin DOMAIN js
    BY <1>1, <1>2, <1>3 DEF SubInv, Unwatched
  <2> QED BY <1>2, <1>3, <2>1, <2>2, <2>3 DEF Requests
<1>7. PICK q : /\ Same(trs[t], q) /\ q.known = trs[t].known /\ q.served = trs[t].served /\ now = Replaced(t, q)
               /\ IF trs[t].state = "trying" THEN q.state = "completed" /\ q.answer = code ELSE q = trs[t]
  <2>1. CASE trs[t].state = "trying"
    <3> DEFINE p == [trs[t] EXCEPT !.answer = code]
               q == [p EXCEPT !.state = "completed"]
    <3>1. now = Replaced(t, q)
      <4>1. now = [trs EXCEPT ![t].answer = code, ![t].state = "completed"]
        BY <2>1
      <4>2. trs = [u \in DOMAIN trs |-> trs[u]] /\ t \in DOMAIN trs
        BY <1>1, <1>6, Typed, SeqDef DEF SubInv
      <4> HIDE DEF now
      <4>4. trs[t] \in Requests
        BY <1>6
      <4>3. ASSUME NEW a, NEW k
            PROVE  [trs EXCEPT ![t].answer = a, ![t].state = k] = Replaced(t, [[trs[t] EXCEPT !.answer = a] EXCEPT !.state = k])
        BY <4>2, <4>4, ZenonT(60) DEF Replaced, Requests
      <4> QED BY <4>1, <4>3
    <3> HIDE DEF now
    <3>2. Same(trs[t], p) /\ p.state = trs[t].state /\ p.answer = code /\ p.known = trs[t].known /\ p.served = trs[t].served
      BY <1>1, <1>6, AnswerFields
    <3> HIDE DEF p
    <3>3. Same(p, q) /\ q.state = "completed" /\ q.answer = p.answer /\ q.known = p.known /\ q.served = p.served
      BY <3>2, StateFields DEF Same
    <3> HIDE DEF q
    <3>4. Same(trs[t], q)
      BY <3>2, <3>3, SameTwice
    <3> QED BY <2>1, <3>1, <3>2, <3>3, <3>4
  <2>2. CASE trs[t].state # "trying"
    <3>1. now = trs /\ trs = Replaced(t, trs[t])
      BY <1>1, <1>6, <2>2 DEF Replaced
    <3>2. Same(trs[t], trs[t])
      BY <1>6 DEF Same
    <3> QED BY <2>2, <3>1, <3>2
  <2> QED BY <2>1, <2>2
<1> HIDE DEF now
<1>8. /\ trs' \in Seq(Requests) /\ Len(trs') = Len(trs)
      /\ \A u \in 1 .. Len(trs) :
            /\ Same(trs[u], trs'[u]) /\ trs'[u].served = trs[u].served
            /\ u # t => trs'[u].state = trs[u].state /\ trs'[u].answer = trs[u].answer
            /\ trs'[u].known = trs[u].known \/ (trs[u].by = "phone" /\ trs[u].call = c /\ trs'[u].known = FALSE)
      /\ trs'[t].state = q.state /\ trs'[t].answer = q.answer
      /\ ends => \A u \in 1 .. Len(trs) : trs[u].by = "phone" /\ trs[u].call = c => trs'[u].known = FALSE
  <2>1. trs' = Replaced(t, q) \/ trs' = Forgets(Replaced(t, q), "phone", c)
    BY <1>4, <1>7
  <2>2. ends => trs' = Forgets(Replaced(t, q), "phone", c)
    BY <1>4, <1>7
  <2> HIDE DEF ends
  <2>3. Ends(t, q, "phone", c) /\ SubTypeOK
    BY <1>7, <2>1 DEF Ends, SubInv
  <2>4. /\ Ended(t, q, "phone", c)
        /\ trs' = Forgets(Replaced(t, q), "phone", c) =>
              \A u \in 1 .. Len(trs) : trs[u].by = "phone" /\ trs[u].call = c => trs'[u].known = FALSE
    BY <1>1, <2>3, OneEnds, ZenonT(60)
  <2> QED BY <2>2, <2>4 DEF Ended
<1>9. /\ \/ trs'[t].state = trs[t].state /\ trs'[t].answer = trs[t].answer /\ trs[t].state # "trying"
         \/ trs[t].state = "trying" /\ trs'[t].state = "completed" /\ trs'[t].answer = code
  BY <1>7, <1>8
<1>10. Moves
  <2> SUFFICES ASSUME NEW u \in 1 .. Len(trs)
               PROVE  (Closed(u) => Closed(u)') /\ (trs'[u].known => trs[u].known)
    BY <1>8, SameMoves DEF SubInv
  <2>1. CASE u = t
    BY <1>8, <1>9, <2>1 DEF Closed
  <2>2. CASE u # t
    BY <1>8, <2>2 DEF Closed
  <2> QED BY <2>1, <2>2
<1>11. Numbered' /\ OneCSeqEach'
  BY <1>10, KeptSent DEF SubInv, Moves
<1>12. Watching'
  <2>1. \A d \in DOMAIN js : StillAsks(d)
    BY <1>3, AsksTheSame
  <2>2. \A u \in 1 .. Len(trs) : trs[u].by = "watcher" /\ trs[u].known => trs'[u].known
    BY <1>8
  <2> QED BY <1>3, <1>10, <2>1, <2>2, WatchingMoves
<1>13. /\ DOMAIN jn' \subseteq DOMAIN jn
       /\ \A d \in DOMAIN jn' : jn'[d].inc = jn[d].inc /\ jn'[d].out = jn[d].out /\ jn'[d].status = jn[d].status
       /\ DOMAIN jn' \subseteq Calls /\ jn' \in [DOMAIN jn' -> Notifier]
       /\ \A d \in DOMAIN jn : d \in DOMAIN jn' \/ (d = c /\ ends)
  <2>1. CASE ends
    BY <1>5, <2>1, PhoneDropped DEF SubInv
  <2>2. CASE ~ends /\ ~accepted
    BY <1>5, <2>2 DEF SubInv, SubTypeOK
  <2>3. CASE ~ends /\ accepted
    <3>1. jn \in [DOMAIN jn -> Notifier] /\ DOMAIN jn \subseteq Calls
      BY DEF SubInv, SubTypeOK
    <3>2. c \in DOMAIN jn
      BY <1>1, <1>2, <1>3, <2>3 DEF SubInv, OneOpen, Closed
    <3>3. jn' = Tried(jn, c, 0)
      BY <1>5, <2>3 DEF Accepted, Tried
    <3>4. /\ Tried(jn, c, 0) \in [DOMAIN jn -> Notifier] /\ \A d \in DOMAIN jn : d # c => Tried(jn, c, 0)[d] = jn[d]
          /\ Tried(jn, c, 0)[c].inc = jn[c].inc /\ Tried(jn, c, 0)[c].status = jn[c].status
          /\ Tried(jn, c, 0)[c].out = jn[c].out
      BY <3>1, <3>2, NoteFields
    <3>5. /\ DOMAIN jn' = DOMAIN jn /\ jn' \in [DOMAIN jn' -> Notifier]
          /\ \A d \in DOMAIN jn : d # c => jn'[d] = jn[d]
          /\ jn'[c].inc = jn[c].inc /\ jn'[c].status = jn[c].status /\ jn'[c].out = jn[c].out
      BY <3>3, <3>4
    <3> QED BY <3>1, <3>5
  <2> QED BY <2>1, <2>2, <2>3
<1>14. Subscribed' /\ LastNews' /\ OneOpen' /\ NewsTold'
  <2>1. \A d \in DOMAIN jn' : jn'[d].inc \in Sent("watcher", d) /\ trs'[jn'[d].inc].served # "no"
    <3>1. \A d \in DOMAIN jn : jn[d].inc \in 1 .. Len(trs) /\ jn[d].inc \in Sent("watcher", d) /\ trs[jn[d].inc].served # "no"
      BY DEF SubInv, Subscribed, Sent
    <3>2. \A d \in DOMAIN jn' : d \in DOMAIN jn /\ jn'[d].inc = jn[d].inc
      BY <1>13
    <3> QED BY <1>8, <3>1, <3>2
  <2>2. ASSUME NEW u \in 1 .. Len(trs), trs[u].by = "phone", trs'[u].known, ~Closed(u)'
        PROVE  trs[u].call \in DOMAIN jn' /\ (trs[u].call \in DOMAIN jn => jn'[trs[u].call].out = jn[trs[u].call].out)
    <3>1. trs[u].known /\ ~Closed(u)
      BY <1>10, <2>2 DEF Moves
    <3>2. trs[u].call \in DOMAIN jn
      BY <2>2, <3>1 DEF SubInv, OneOpen
    <3>3. trs[u].call # c \/ ~ends
      BY <1>8, <2>2
    <3> QED BY <1>13, <3>2, <3>3
  <2> QED BY <1>3, <1>10, <1>13, <2>1, <2>2, NotifierMoves
<1>15. HeardWasTold'
  BY <1>3, <1>10, HeardMoves
<1>16. Served'
  <2>1. \A d : Reached(d)' => Reached(d)
    BY <1>8 DEF Reached, Sent, Same
  <2>2. \A d \in DOMAIN js : d \in DOMAIN jn => d \in DOMAIN jn'
    BY <1>6, <1>13
  <2> QED BY <1>3, <1>10, <2>1, <2>2, ServedMoves
<1>17. /\ Answers' /\ OnItsWay' /\ Unwatched' /\ Farewell' /\ Delivered'
       /\ post' \subseteq (1 .. Len(trs')) \X Nat /\ inbox' \subseteq 1 .. Len(trs')
  <2>1. Answering({})
    BY <1>3 DEF SubInv, SubTypeOK, Answers, Answering
  <2>2. ASSUME NEW u \in 1 .. Len(trs) PROVE Proceeds(u)
    <3>1. CASE u # t
      BY <1>8, <3>1 DEF Proceeds
    <3>2. CASE u = t
      <4>1. <<t, 0>> \notin post'
        <5>1. ASSUME <<t, 0>> \in post PROVE FALSE
          <6>1. <<t, 0>> = <<t, code>>
            BY <1>1, <1>3, <5>1 DEF SubInv, OnItsWay
          <6> QED BY <1>3, <6>1
        <5> QED BY <1>3, <5>1
      <4>2. trs'[t].answer = trs[t].answer \/ (trs'[t].answer # 0 /\ trs'[t].answer \in {200, 407, 481}
               /\ (trs'[t].answer = 481 => trs[t].call \notin DOMAIN js'))
        BY <1>2, <1>3, <1>6, <1>9
      <4>3. trs'[t].state = "completed" => trs[t].state = "completed" \/ trs'[t].answer # 0
        BY <1>3, <1>9
      <4> QED BY <1>3, <3>2, <4>1, <4>2, <4>3 DEF Proceeds
    <3> QED BY <3>1, <3>2
  <2>3. Delivers
    <3>1. ASSUME NEW u \in 1 .. Len(trs), trs'[u].state = "trying"
          PROVE  trs[u].state = "trying" /\ \A k \in post : k[1] = u => k \in post'
      <4>1. u # t
        BY <1>9, <3>1
      <4> QED BY <1>3, <1>8, <3>1, <4>1
    <3> QED BY <1>3, <3>1 DEF Delivers
  <2> QED BY <1>3, <1>10, <2>1, <2>2, <2>3, AnswersMove
<1>18. SubTypeOK'
  BY <1>3, <1>8, <1>13, <1>17 DEF SubInv, SubTypeOK
<1> QED BY <1>11, <1>12, <1>14, <1>15, <1>16, <1>17, <1>18 DEF SubInv

\* With no packet lost, the phone only forgets whom nobody watches, or who has given up.
LEMMA FatalNotify ==
    ASSUME SubInv, NEW t \in 1 .. Len(trs), trs[t].by = "phone", trs[t].call \in DOMAIN jn, Fatal(trs[t]),
           trs[t].state = "completed" \/ (trs[t].state = "trying" /\ \A m \in post : m[1] # t), seen.trouble = 0
    PROVE  trs[t].call \notin DOMAIN js \/ GivenUp(trs[t].call)
<1>1. trs[t].answer \in {0, 200, 407, 481}
  BY DEF SubInv, Answers
<1>2. trs[t].answer = 0 \/ (trs[t].answer > 299 /\ trs[t].answer # 407)
        \/ (trs[t].answer \in 200 .. 299 /\ jn[trs[t].call].status = "terminated")
  BY DEF Fatal
<1>3. CASE trs[t].answer = 0
  <2>1. trs[t].state = "trying" /\ \A m \in post : m[1] # t
    BY <1>3 DEF SubInv, Answers
  <2> QED BY <2>1 DEF SubInv, Delivered
<1>4. CASE trs[t].answer > 299 /\ trs[t].answer # 407
  <2>1. trs[t].answer = 481
    BY <1>1, <1>4
  <2> QED BY <2>1 DEF SubInv, Unwatched
<1>5. CASE jn[trs[t].call].status = "terminated"
  BY <1>5 DEF SubInv, Subscribed, GivenUp
<1> QED BY <1>2, <1>3, <1>4, <1>5

\* A transaction that ends takes its subscription along only if it was refused, went
\* without an answer or said farewell.
LEMMA KillStep ==
    ASSUME SubInv, NEW t \in DOMAIN trs, cb_xixt_kill_transaction(t)
    PROVE  SubInv'
<1>1. t \in 1 .. Len(trs) /\ trs[t] \in Requests /\ trs \in Seq(Requests) /\ trs[t].by \in {"watcher", "phone"}
  <2>1. t \in 1 .. Len(trs) /\ trs[t] \in Requests
    BY Typed DEF SubInv
  <2>2. trs \in Seq(Requests)
    BY DEF SubInv, SubTypeOK
  <2> QED BY <2>1, <2>2 DEF Requests
<1>2. PICK c, by : c = trs[t].call /\ by = trs[t].by
  OBVIOUS
<1> DEFINE dies == trs[t].known /\ trs[t].call \in (IF trs[t].by = "phone" THEN DOMAIN jn ELSE DOMAIN js) /\ Fatal(trs[t])
           q == [trs[t] EXCEPT !.state = "terminated"]
<1>3. /\ trs[t].state = "completed" \/ (trs[t].state = "trying" /\ \A m \in post : m[1] # t)
      /\ UNCHANGED <<post, inbox, seen>>
  BY DEF cb_xixt_kill_transaction
<1>4. /\ trs' = IF dies THEN Forgets([trs EXCEPT ![t].state = "terminated"], by, c) ELSE [trs EXCEPT ![t].state = "terminated"]
      /\ js' = IF dies /\ by = "watcher" THEN Without(js, c) ELSE js
      /\ jn' = IF dies /\ by = "phone" THEN Without(jn, c) ELSE jn
  BY <1>2 DEF cb_xixt_kill_transaction
<1>5. [trs EXCEPT ![t].state = "terminated"] = Replaced(t, q)
  BY <1>1 DEF Replaced
<1>6. /\ Same(trs[t], q) /\ q.state = "terminated" /\ q.answer = trs[t].answer /\ q.known = trs[t].known
      /\ q.served = trs[t].served
  BY <1>1, StateFields
<1> HIDE DEF q
<1>7. trs[t].by = "phone" /\ dies => c \in DOMAIN jn /\ Fatal(trs[t])
  BY <1>2
<1>8. trs[t].by = "watcher" /\ c \in DOMAIN js /\ trs[t].expires = 0 => dies
  <2> SUFFICES ASSUME trs[t].by = "watcher", c \in DOMAIN js, trs[t].expires = 0 PROVE dies
    OBVIOUS
  <2>1. trs[t].known
    BY <1>1, <1>2 DEF SubInv, Watching, Sent
  <2> QED BY <1>2, <2>1 DEF Fatal
<1> HIDE DEF dies
<1>9. /\ Ended(t, q, by, c)
      /\ dies => \A u \in 1 .. Len(trs) : trs[u].by = by /\ trs[u].call = c => trs'[u].known = FALSE
  <2>1. trs' = Replaced(t, q) \/ trs' = Forgets(Replaced(t, q), by, c)
    BY <1>4, <1>5
  <2>2. dies => trs' = Forgets(Replaced(t, q), by, c)
    BY <1>4, <1>5
  <2>3. Ends(t, q, by, c) /\ SubTypeOK
    BY <1>6, <2>1 DEF Ends, SubInv
  <2>4. /\ Ended(t, q, by, c)
        /\ trs' = Forgets(Replaced(t, q), by, c) =>
              \A u \in 1 .. Len(trs) : trs[u].by = by /\ trs[u].call = c => trs'[u].known = FALSE
    BY <1>1, <2>3, OneEnds
  <2> QED BY <2>2, <2>4
<1>10. /\ trs' \in Seq(Requests) /\ Len(trs') = Len(trs)
       /\ \A u \in 1 .. Len(trs) :
             /\ Same(trs[u], trs'[u]) /\ trs'[u].served = trs[u].served /\ trs'[u].answer = trs[u].answer
             /\ u # t => trs'[u].state = trs[u].state
             /\ trs'[u].known = trs[u].known \/ (trs[u].by = by /\ trs[u].call = c /\ trs'[u].known = FALSE)
       /\ trs'[t].state = "terminated"
  <2>1. \A u \in 1 .. Len(trs) : trs'[u].answer = trs[u].answer
    <3> SUFFICES ASSUME NEW u \in 1 .. Len(trs) PROVE trs'[u].answer = trs[u].answer
      OBVIOUS
    <3>1. CASE u = t
      BY <1>6, <1>9, <3>1 DEF Ended
    <3>2. CASE u # t
      BY <1>9, <3>2 DEF Ended
    <3> QED BY <3>1, <3>2
  <2> QED BY <1>6, <1>9, <2>1 DEF Ended
<1>11. Moves
  <2> SUFFICES ASSUME NEW u \in 1 .. Len(trs)
               PROVE  (Closed(u) => Closed(u)') /\ (trs'[u].known => trs[u].known)
    BY <1>10, SameMoves DEF SubInv
  <2>1. CASE u = t
    BY <1>10, <2>1 DEF Closed
  <2>2. CASE u # t
    BY <1>10, <2>2 DEF Closed
  <2> QED BY <2>1, <2>2
<1>12. Numbered' /\ OneCSeqEach'
  BY <1>11, KeptSent DEF SubInv, Moves
<1>13. /\ DOMAIN js' \subseteq DOMAIN js /\ \A d \in DOMAIN js' : js'[d] = js[d]
       /\ DOMAIN js' \subseteq Calls /\ js' \in [DOMAIN js' -> Subscribe]
       /\ dies /\ by = "watcher" => c \notin DOMAIN js'
       /\ ~(dies /\ by = "watcher") => js' = js
  <2>1. CASE dies /\ by = "watcher"
    BY <1>4, <2>1, WatcherDropped DEF SubInv
  <2>2. CASE ~(dies /\ by = "watcher")
    BY <1>4, <2>2 DEF SubInv, SubTypeOK
  <2> QED BY <2>1, <2>2
<1>14. /\ DOMAIN jn' \subseteq DOMAIN jn /\ \A d \in DOMAIN jn' : jn'[d] = jn[d]
       /\ DOMAIN jn' \subseteq Calls /\ jn' \in [DOMAIN jn' -> Notifier]
       /\ \A d \in DOMAIN jn : d \in DOMAIN jn' \/ (d = c /\ dies /\ by = "phone")
  <2>1. CASE dies /\ by = "phone"
    BY <1>4, <2>1, PhoneDropped DEF SubInv
  <2>2. CASE ~(dies /\ by = "phone")
    BY <1>4, <2>2 DEF SubInv, SubTypeOK
  <2> QED BY <2>1, <2>2
<1>15. Watching'
  <2>1. \A d \in DOMAIN js' : StillAsks(d)
    BY <1>13, AsksTheSame
  <2>2. ASSUME NEW u \in 1 .. Len(trs), trs[u].by = "watcher", trs[u].call \in DOMAIN js', trs[u].known
        PROVE  trs'[u].known
    <3>1. CASE dies /\ by = "watcher"
      BY <1>10, <1>13, <2>2, <3>1
    <3>2. CASE by # "watcher"
      BY <1>10, <2>2, <3>2
    <3>3. CASE ~dies
      <4>1. trs' = Replaced(t, q)
        BY <1>4, <1>5, <3>3
      <4>2. trs'[u] = IF u = t THEN q ELSE trs[u]
        BY <1>1, <2>2, <4>1 DEF Replaced
      <4> QED BY <1>6, <2>2, <4>2
    <3> QED BY <3>1, <3>2, <3>3
  <2> QED BY <1>11, <1>13, <2>1, <2>2, WatchingMoves
<1>16. Subscribed' /\ LastNews' /\ OneOpen' /\ NewsTold'
  <2>1. \A d \in DOMAIN jn' : jn'[d].inc \in Sent("watcher", d) /\ trs'[jn'[d].inc].served # "no"
    <3>1. \A d \in DOMAIN jn : jn[d].inc \in 1 .. Len(trs) /\ jn[d].inc \in Sent("watcher", d) /\ trs[jn[d].inc].served # "no"
      BY DEF SubInv, Subscribed, Sent
    <3>2. \A d \in DOMAIN jn' : d \in DOMAIN jn /\ jn'[d].inc = jn[d].inc
      BY <1>14
    <3> QED BY <1>10, <3>1, <3>2
  <2>2. ASSUME NEW u \in 1 .. Len(trs), trs[u].by = "phone", trs'[u].known, ~Closed(u)'
        PROVE  trs[u].call \in DOMAIN jn' /\ (trs[u].call \in DOMAIN jn => jn'[trs[u].call].out = jn[trs[u].call].out)
    <3>1. trs[u].known /\ ~Closed(u)
      BY <1>11, <2>2 DEF Moves
    <3>2. trs[u].call \in DOMAIN jn
      BY <2>2, <3>1 DEF SubInv, OneOpen
    <3>3. ~(trs[u].call = c /\ dies /\ by = "phone")
      BY <1>9, <2>2
    <3> QED BY <1>14, <3>2, <3>3
  <2> QED BY <1>3, <1>11, <1>14, <2>1, <2>2, NotifierMoves
<1>17. HeardWasTold'
  BY <1>3, <1>11, HeardMoves
<1>18. Served'
  <2>1. \A d : Reached(d)' => Reached(d)
    BY <1>10 DEF Reached, Sent, Same
  <2>2. ASSUME NEW d \in DOMAIN js', seen.trouble = 0, d \in DOMAIN jn
        PROVE  d \in DOMAIN jn' \/ GivenUp(d)
    <3>1. CASE d \in DOMAIN jn'
      BY <3>1
    <3>2. CASE d \notin DOMAIN jn'
      <4>1. d = c /\ dies /\ by = "phone"
        BY <1>14, <2>2, <3>2
      <4>2. c \in DOMAIN jn /\ Fatal(trs[t]) /\ trs[t].by = "phone"
        BY <1>2, <1>7, <4>1
      <4>3. c \notin DOMAIN js \/ GivenUp(c)
        BY <1>1, <1>2, <1>3, <2>2, <4>2, FatalNotify
      <4> QED BY <1>13, <4>1, <4>3
    <3> QED BY <3>1, <3>2
  <2>3. \A d \in DOMAIN js' : js'[d].dialogs # << >> => js[d].dialogs # << >> \/ Reached(d)
    BY <1>13
  <2> QED BY <1>3, <1>11, <1>13, <2>1, <2>2, <2>3, ServedMoves
<1>19. /\ Answers' /\ OnItsWay' /\ Unwatched' /\ Farewell' /\ Delivered'
       /\ post' \subseteq (1 .. Len(trs')) \X Nat /\ inbox' \subseteq 1 .. Len(trs')
  <2>1. Answering({})
    BY <1>3 DEF SubInv, SubTypeOK, Answers, Answering
  <2>2. ASSUME NEW u \in 1 .. Len(trs) PROVE Proceeds(u)
    <3>1. CASE u # t
      BY <1>10, <3>1 DEF Proceeds
    <3>2. CASE u = t
      <4>1. trs[t].by = "phone" => <<t, 0>> \notin post'
        <5>1. ASSUME trs[t].by = "phone", <<t, 0>> \in post PROVE FALSE
          <6>1. trs[t].state = "trying"
            BY <5>1 DEF SubInv, OnItsWay
          <6>2. \A m \in post : m[1] # t
            BY <1>3, <6>1
          <6> QED BY <5>1, <6>2
        <5> QED BY <1>3, <5>1
      <4>2. trs[t].by = "watcher" /\ trs[t].expires = 0 => trs[t].call \notin DOMAIN js'
        BY <1>2, <1>8, <1>13
      <4> QED BY <1>10, <3>2, <4>1, <4>2 DEF Proceeds
    <3> QED BY <3>1, <3>2
  <2>3. Delivers
    <3>1. ASSUME NEW u \in 1 .. Len(trs), trs'[u].state = "trying"
          PROVE  trs[u].state = "trying"
      <4>1. u # t
        BY <1>10, <3>1
      <4> QED BY <1>10, <3>1, <4>1
    <3> QED BY <1>3, <3>1 DEF Delivers
  <2> QED BY <1>11, <1>13, <2>1, <2>2, <2>3, AnswersMove
<1>20. SubTypeOK'
  BY <1>3, <1>10, <1>13, <1>14, <1>19 DEF SubInv, SubTypeOK
<1> QED BY <1>12, <1>15, <1>16, <1>17, <1>18, <1>19, <1>20 DEF SubInv

-----------------------------------------------------------------------------
(* The NOTIFYs the phone sends. *)

\* The request r with another answer of the phone's under way, at most.
Stays(r, q) ==
    /\ Same(r, q) /\ q.state = r.state /\ q.answer = r.answer /\ q.known = r.known
    /\ (q.served = "no" <=> r.served = "no")

\* base are the requests sent before, and P the answer that goes with the NOTIFY.
Before(base, P) ==
    /\ base \in Seq(Requests) /\ Len(base) = Len(trs)
    /\ \A u \in 1 .. Len(trs) : Stays(trs[u], base[u])
    /\ \A m \in P : m \in (1 .. Len(trs)) \X (Nat \ {0}) /\ trs[m[1]].by = "watcher" /\ trs[m[1]].served # "no"

\* f is what the phone keeps once the NOTIFY o of the call c is sent.
Noted(f, c, o) ==
    /\ f \in [DOMAIN jn -> Notifier] /\ \A d \in DOMAIN jn : d # c => f[d] = jn[d]
    /\ f[c].inc = jn[c].inc /\ f[c].status = jn[c].status /\ f[c].out = o

\* The news told are the ones of the NOTIFY, at least; nobody has heard them yet.
Newer(c, news) ==
    /\ seen' \in [heard : [Calls -> Nat], news : Nat, trouble : Nat]
    /\ seen'.heard = seen.heard /\ seen'.trouble = seen.trouble /\ seen.news <= seen'.news /\ news <= seen'.news
    /\ \A u \in Sent("phone", c) : trs[u].news <= news

\* The NOTIFY comes last, and all others stay.
LEMMA PhoneAppends ==
    ASSUME SubInv, NEW c \in DOMAIN jn, NEW k, NEW status, NEW news, NEW r, Fresh(r, "phone", c, k, 0, status, news),
           NEW base, NEW P, Before(base, P), trs' = Append(base, r)
    PROVE  /\ trs' \in Seq(Requests) /\ Len(trs') = Len(trs) + 1 /\ trs'[Len(trs) + 1] = r
           /\ \A u \in 1 .. Len(trs) : Stays(trs[u], trs'[u])
           /\ \A by, d : Sent(by, d)' = Sent(by, d) \cup (IF by = "phone" /\ d = c THEN {Len(trs) + 1} ELSE {})
           /\ Numbered' /\ OneCSeqEach'
<1>1. PICK n \in Nat : n = Len(trs)
  BY Typed DEF SubInv
<1>2. /\ r \in Requests /\ r.by = "phone" /\ r.call = c /\ 1 .. n + 1 = (1 .. n) \cup {n + 1} /\ n + 1 \notin 1 .. n
  BY DEF Fresh
<1>3. /\ trs' \in Seq(Requests) /\ Len(trs') = n + 1 /\ trs'[n + 1] = r /\ \A u \in 1 .. n : trs'[u] = base[u]
  BY <1>1, <1>2, AppendProperties DEF Before
<1>4. \A u \in 1 .. n : Stays(trs[u], trs'[u])
  BY <1>1, <1>3 DEF Before
<1>5. \A u \in 1 .. n : trs'[u].by = trs[u].by /\ trs'[u].call = trs[u].call /\ trs'[u].cseq = trs[u].cseq
  BY <1>4 DEF Stays, Same
<1>6. \A by, d : Sent(by, d)' = Sent(by, d) \cup (IF by = "phone" /\ d = c THEN {n + 1} ELSE {})
  BY <1>1, <1>2, <1>3, <1>5 DEF Sent
<1>7. Firsts' = Firsts
  BY <1>1, <1>2, <1>3, <1>5 DEF Firsts
<1>8. Numbered'
  BY <1>1, <1>2, <1>3, <1>5, <1>7 DEF SubInv, Numbered
<1>9. OneCSeqEach'
  BY <1>1, <1>2, <1>3, <1>5 DEF SubInv, OneCSeqEach
<1> QED BY <1>1, <1>3, <1>4, <1>6, <1>8, <1>9

\* A NOTIFY is sent when none is open, and has the latest news: it is the one open now.
LEMMA PhoneSends ==
    ASSUME SubInv, NEW c \in DOMAIN jn, NEW k, NEW status, NEW news, NEW r, Fresh(r, "phone", c, k, 0, status, news),
           jn[c].out # 0 => Closed(jn[c].out),
           NEW base, NEW P, Before(base, P), trs' = Append(base, r), Newer(c, news), Noted(jn', c, Len(trs) + 1),
           post' = post \cup P \cup {<<Len(trs) + 1, 0>>}, inbox' \subseteq inbox, js' = js
    PROVE  SubInv'
<1>1. PICK n \in Nat : n = Len(trs)
  BY Typed DEF SubInv
<1>2. /\ r \in Requests /\ r.by = "phone" /\ r.call = c /\ r.state = "trying" /\ r.answer = 0 /\ r.known = TRUE
      /\ r.status = status /\ r.news = news /\ news \in Nat /\ c \in Calls
  BY DEF Fresh, Requests, SubInv, SubTypeOK
<1>3. /\ trs' \in Seq(Requests) /\ Len(trs') = n + 1 /\ trs'[n + 1] = r
      /\ \A u \in 1 .. n : Stays(trs[u], trs'[u])
      /\ \A by, d : Sent(by, d)' = Sent(by, d) \cup (IF by = "phone" /\ d = c THEN {n + 1} ELSE {})
      /\ Numbered' /\ OneCSeqEach' /\ 1 .. n + 1 = (1 .. n) \cup {n + 1} /\ n + 1 \notin 1 .. n
  BY <1>1, PhoneAppends
<1>4. /\ \A u \in 1 .. n : /\ trs'[u].by = trs[u].by /\ trs'[u].call = trs[u].call /\ trs'[u].cseq = trs[u].cseq
                           /\ trs'[u].expires = trs[u].expires /\ trs'[u].status = trs[u].status /\ trs'[u].news = trs[u].news
                           /\ trs'[u].state = trs[u].state /\ trs'[u].answer = trs[u].answer /\ trs'[u].known = trs[u].known
                           /\ (trs'[u].served = "no" <=> trs[u].served = "no")
                           /\ Closed(u)' = Closed(u)
  BY <1>3 DEF Stays, Same, Closed
<1>5. /\ DOMAIN jn' = DOMAIN jn /\ jn' \in [DOMAIN jn' -> Notifier] /\ DOMAIN jn \subseteq Calls
      /\ jn'[c].inc = jn[c].inc /\ jn'[c].status = jn[c].status /\ jn'[c].out = n + 1
      /\ \A d \in DOMAIN jn : d # c => jn'[d] = jn[d]
  BY <1>1 DEF Noted, SubInv, SubTypeOK
<1>6. /\ \A d : Sent("watcher", d)' = Sent("watcher", d)
      /\ \A d : d # c => Sent("phone", d)' = Sent("phone", d)
      /\ Sent("phone", c)' = Sent("phone", c) \cup {n + 1}
      /\ \A d : Sent("phone", d) \subseteq Sent("phone", d)'
      /\ \A by, d : \A u \in Sent(by, d) : u \in 1 .. n
  <2>1. \A by, d : Sent(by, d)' = Sent(by, d) \cup (IF by = "phone" /\ d = c THEN {n + 1} ELSE {})
    BY <1>3
  <2>2. \A by, d : \A u \in Sent(by, d) : u \in 1 .. n
    BY <1>1 DEF Sent
  <2>3. \A d : Sent("watcher", d)' = Sent("watcher", d)
    BY <2>1
  <2>4. \A d : d # c => Sent("phone", d)' = Sent("phone", d)
    BY <2>1
  <2>5. Sent("phone", c)' = Sent("phone", c) \cup {n + 1}
    BY <2>1
  <2> QED BY <2>2, <2>3, <2>4, <2>5
<1>7. \A m \in post' : \/ m \in post /\ m[1] \in 1 .. n /\ m[2] \in Nat /\ m = <<m[1], m[2]>>
                       \/ m \in P
                       \/ m = <<n + 1, 0>> /\ m[1] = n + 1 /\ m[2] = 0
  BY <1>1, Typed DEF SubInv
<1>8. \A m \in P : m[1] \in 1 .. n /\ m[2] \in Nat /\ m[2] # 0 /\ m = <<m[1], m[2]>>
                   /\ trs[m[1]].by = "watcher" /\ trs[m[1]].served # "no"
  BY <1>1 DEF Before
<1>9. SubTypeOK'
  <2>1. \A m \in post' : m \in (1 .. n + 1) \X Nat
    BY <1>3, <1>7, <1>8
  <2>2. seen' \in [heard : [Calls -> Nat], news : Nat, trouble : Nat]
    BY DEF Newer
  <2> QED BY <1>1, <1>3, <1>5, <2>1, <2>2 DEF SubInv, SubTypeOK
<1>10. Watching'
  <2> SUFFICES ASSUME NEW d \in DOMAIN js
               PROVE  /\ js'[d].out \in 1 .. Len(trs') /\ Len(js'[d].dialogs) <= 1
                      /\ Latest(d, eXosip_find_last_out_subscribe(d))'
                      /\ js'[d].dialogs # << >> =>
                           /\ js'[d].dialogs[1].local_cseq = trs'[eXosip_find_last_out_subscribe(d)'].cseq
                           /\ js'[d].dialogs[1].out # js'[d].out
                      /\ \A u \in Sent("watcher", d)' : trs'[u].known
    BY DEF Watching
  <2> DEFINE t == eXosip_find_last_out_subscribe(d)
  <2>1. t' = t
    BY DEF eXosip_find_last_out_subscribe
  <2>2. /\ js[d].out \in 1 .. n /\ Len(js[d].dialogs) <= 1 /\ Latest(d, t) /\ t \in Sent("watcher", d)
        /\ js[d].dialogs # << >> => js[d].dialogs[1].local_cseq = trs[t].cseq /\ js[d].dialogs[1].out # js[d].out
        /\ \A u \in Sent("watcher", d) : trs[u].known
    BY <1>1 DEF SubInv, Watching, Latest
  <2>a. eXosip_find_last_out_subscribe(d)' = eXosip_find_last_out_subscribe(d) /\ t \in 1 .. n
    BY <1>6, <2>1, <2>2
  <2> HIDE DEF t
  <2>3. Latest(d, t)'
    <3>1. Sent("watcher", d)' = Sent("watcher", d)
      BY <1>6
    <3>2. ASSUME NEW u \in Sent("watcher", d), u # t PROVE trs'[u].cseq < trs'[t].cseq /\ Closed(u)'
      <4>1. trs[u].cseq < trs[t].cseq /\ Closed(u) /\ u \in 1 .. n /\ t \in 1 .. n
        BY <1>6, <2>2, <3>2 DEF Latest
      <4> QED BY <1>4, <4>1
    <3> QED BY <2>1, <2>2, <3>1, <3>2 DEF Latest
  <2>4. trs'[t].cseq = trs[t].cseq /\ \A u \in Sent("watcher", d)' : trs'[u].known
    <3>1. Sent("watcher", d)' = Sent("watcher", d) /\ \A u \in Sent("watcher", d) : u \in 1 .. n
      BY <1>6
    <3> QED BY <1>4, <2>2, <2>a, <3>1
  <2>5. js[d].out \in 1 .. Len(trs')
    BY <1>3, <2>2
  <2> QED BY <2>1, <2>2, <2>3, <2>4, <2>5 DEF t
<1>11. Subscribed'
  <2>1. \A d \in DOMAIN jn : jn'[d].inc = jn[d].inc /\ jn'[d].status = jn[d].status
    BY <1>5
  <2>2. \A d \in DOMAIN jn : /\ jn[d].inc \in Sent("watcher", d) /\ trs[jn[d].inc].served # "no"
                             /\ jn[d].status = "terminated" => \E t \in Sent("watcher", d) : trs[t].expires = 0
    BY DEF SubInv, Subscribed
  <2>3. ASSUME NEW d \in DOMAIN jn
        PROVE  /\ jn'[d].inc \in Sent("watcher", d)' /\ trs'[jn'[d].inc].served # "no"
               /\ jn'[d].status = "terminated" => \E t \in Sent("watcher", d)' : trs'[t].expires = 0
    <3>1. Sent("watcher", d)' = Sent("watcher", d) /\ \A u \in Sent("watcher", d) : u \in 1 .. n
      BY <1>6
    <3>2. \A u \in Sent("watcher", d) : trs'[u].expires = trs[u].expires /\ (trs'[u].served = "no" <=> trs[u].served = "no")
      BY <1>4, <3>1
    <3>3. jn'[d].inc \in Sent("watcher", d)' /\ trs'[jn'[d].inc].served # "no"
      BY <2>1, <2>2, <3>1, <3>2, ZenonT(60)
    <3>4. jn'[d].status = "terminated" => \E t \in Sent("watcher", d)' : trs'[t].expires = 0
      BY <2>1, <2>2, <3>1, <3>2, ZenonT(60)
    <3> QED BY <3>3, <3>4
  <2> QED BY <1>5, <2>3 DEF Subscribed
<1>12. LastNews'
  <2> SUFFICES ASSUME NEW d \in DOMAIN jn, jn'[d].out # 0
               PROVE  jn'[d].out \in Sent("phone", d)' /\ \A u \in Sent("phone", d)' : trs'[u].news <= trs'[jn'[d].out].news
    BY <1>5 DEF LastNews
  <2>1. CASE d = c
    <3>1. Sent("phone", c)' = Sent("phone", c) \cup {n + 1} /\ jn'[c].out = n + 1
      BY <1>5, <1>6
    <3>2. \A u \in Sent("phone", c) : trs'[u].news <= news
      <4>1. \A u \in Sent("phone", c) : u \in 1 .. n
        BY <1>6
      <4>2. \A u \in Sent("phone", c) : trs[u].news <= news
        BY DEF Newer
      <4> QED BY <1>4, <4>1, <4>2
    <3>3. trs'[n + 1].news = news /\ news <= news
      BY <1>2, <1>3
    <3>4. \A u \in Sent("phone", c)' : trs'[u].news <= trs'[n + 1].news
      BY <3>1, <3>2, <3>3
    <3> QED BY <2>1, <3>1, <3>4
  <2>2. CASE d # c
    <3>1. Sent("phone", d)' = Sent("phone", d) /\ jn'[d] = jn[d] /\ \A u \in Sent("phone", d) : u \in 1 .. n
      BY <1>5, <1>6, <2>2
    <3>2. jn[d].out \in Sent("phone", d) /\ \A u \in Sent("phone", d) : trs[u].news <= trs[jn[d].out].news
      BY <3>1 DEF SubInv, LastNews
    <3> QED BY <1>4, <3>1, <3>2
  <2> QED BY <2>1, <2>2
<1>13. OneOpen'
  <2> SUFFICES ASSUME NEW t \in 1 .. n + 1, trs'[t].by = "phone", trs'[t].known, ~Closed(t)'
               PROVE  trs'[t].call \in DOMAIN jn /\ jn'[trs'[t].call].out = t
    BY <1>3, <1>5 DEF OneOpen
  <2>1. CASE t = n + 1
    BY <1>2, <1>3, <1>5, <2>1
  <2>2. CASE t \in 1 .. n
    <3>1. trs[t].by = "phone" /\ trs[t].known /\ ~Closed(t) /\ trs'[t].call = trs[t].call
      BY <1>4, <2>2
    <3>2. trs[t].call \in DOMAIN jn /\ jn[trs[t].call].out = t
      BY <1>1, <2>2, <3>1 DEF SubInv, OneOpen
    <3>3. trs[t].call # c
      <4>1. t # 0
        BY <2>2
      <4> QED BY <3>1, <3>2, <4>1
    <3> QED BY <1>5, <3>1, <3>2, <3>3
  <2> QED BY <1>3, <2>1, <2>2
<1>14. NewsTold'
  <2>1. seen.news \in Nat /\ seen'.news \in Nat /\ seen.news <= seen'.news /\ news <= seen'.news
    BY DEF Newer, SubInv, SubTypeOK
  <2>2. \A u \in 1 .. n : trs[u].by = "phone" => trs[u].news <= seen.news /\ trs[u].news \in Nat
    BY <1>1, Typed DEF SubInv, NewsTold, Requests
  <2>3. ASSUME NEW u \in 1 .. n + 1, trs'[u].by = "phone" PROVE trs'[u].news <= seen'.news
    <3>1. CASE u = n + 1
      BY <1>2, <1>3, <2>1, <3>1
    <3>2. CASE u \in 1 .. n
      <4>1. trs'[u].news = trs[u].news /\ trs[u].by = "phone"
        BY <1>4, <2>3, <3>2
      <4> QED BY <2>1, <2>2, <3>2, <4>1
    <3> QED BY <1>3, <3>1, <3>2
  <2> QED BY <1>3, <2>3 DEF NewsTold
<1>15. HeardWasTold'
  <2> SUFFICES ASSUME NEW d \in Calls, seen.heard[d] # 0 PROVE \E t \in Sent("phone", d)' : trs'[t].news = seen.heard[d]
    BY DEF HeardWasTold, Newer
  <2>1. PICK t \in Sent("phone", d) : trs[t].news = seen.heard[d]
    BY DEF SubInv, HeardWasTold
  <2>2. t \in 1 .. n /\ t \in Sent("phone", d)'
    BY <1>6
  <2> QED BY <1>4, <2>1, <2>2
<1>16. ASSUME NEW d PROVE (Reached(d)' <=> Reached(d)) /\ (GivenUp(d)' <=> GivenUp(d))
  <2>1. Sent("watcher", d)' = Sent("watcher", d) /\ \A u \in Sent("watcher", d) : u \in 1 .. n
    BY <1>6
  <2>2. \A u \in Sent("watcher", d) : trs'[u].expires = trs[u].expires /\ (trs'[u].served = "no" <=> trs[u].served = "no")
    BY <1>4, <2>1
  <2> QED BY <2>1, <2>2 DEF Reached, GivenUp
<1>17. Served'
  <2>1. Reached(c)
    <3>1. jn[c].inc \in Sent("watcher", c) /\ trs[jn[c].inc].served # "no"
      BY DEF SubInv, Subscribed
    <3> QED BY <3>1 DEF Reached
  <2>2. \A d : Sent("phone", d)' # {} => Sent("phone", d) # {} \/ d = c
    BY <1>3
  <2>3. seen'.trouble = seen.trouble
    BY DEF Newer
  <2> QED BY <1>5, <1>16, <2>1, <2>2, <2>3 DEF SubInv, Served
<1>18. Farewell'
  BY <1>1, <1>2, <1>3, <1>4 DEF SubInv, Farewell
<1>19. Delivered'
  <2> SUFFICES ASSUME seen.trouble = 0, NEW t \in 1 .. n + 1, trs'[t].by = "phone", trs'[t].state = "trying"
               PROVE  \E m \in post' : m[1] = t
    BY <1>3 DEF Delivered, Newer
  <2>1. CASE t = n + 1
    <3>1. <<n + 1, 0>> \in post' /\ <<n + 1, 0>>[1] = n + 1
      BY <1>1
    <3> QED BY <2>1, <3>1
  <2>2. CASE t \in 1 .. n
    <3>1. trs[t].by = "phone" /\ trs[t].state = "trying"
      BY <1>4, <2>2
    <3>2. \E m \in post : m[1] = t
      BY <1>1, <2>2, <3>1 DEF SubInv, Delivered
    <3> QED BY <3>2
  <2> QED BY <1>3, <2>1, <2>2
<1>20. Unwatched'
  <2>1. ASSUME NEW m \in post', trs'[m[1]].by = "phone", m[2] = 481 \/ (m[2] = 200 /\ trs'[m[1]].status = "terminated")
        PROVE  trs'[m[1]].call \notin DOMAIN js
    <3>1. m \in post /\ m[1] \in 1 .. n
      <4>1. m \notin P
        BY <1>4, <1>8, <2>1
      <4>2. m[2] # 0
        BY <2>1
      <4> QED BY <1>7, <4>1, <4>2
    <3>2. /\ trs'[m[1]].call = trs[m[1]].call /\ trs[m[1]].by = "phone"
          /\ m[2] = 481 \/ (m[2] = 200 /\ trs[m[1]].status = "terminated")
      <4>1. trs'[m[1]].call = trs[m[1]].call /\ trs'[m[1]].by = trs[m[1]].by /\ trs'[m[1]].status = trs[m[1]].status
        BY <1>4, <3>1
      <4>2. trs[m[1]].by = "phone"
        BY <2>1, <4>1
      <4>3. m[2] = 481 \/ (m[2] = 200 /\ trs[m[1]].status = "terminated")
        BY <2>1, <4>1, Zenon
      <4> QED BY <4>1, <4>2, <4>3
    <3> QED BY <3>1, <3>2 DEF SubInv, Unwatched
  <2>2. \A t \in 1 .. n : trs[t].by = "phone" /\ trs[t].answer = 481 => trs[t].call \notin DOMAIN js
    BY <1>1 DEF SubInv, Unwatched
  <2>3. \A t \in 1 .. n + 1 : trs'[t].by = "phone" /\ trs'[t].answer = 481 => trs'[t].call \notin DOMAIN js
    BY <1>2, <1>3, <1>4, <2>2
  <2> QED BY <1>3, <2>1, <2>3 DEF Unwatched
<1>21. OnItsWay'
  <2> SUFFICES ASSUME NEW m \in post', trs'[m[1]].by = "phone", m[2] = 0
               PROVE  trs'[m[1]].state = "trying" /\ \A i \in post' : i[1] = m[1] => i = m
    BY DEF OnItsWay
  <2>1. m \notin P
    BY <1>8
  <2>2. CASE m = <<n + 1, 0>>
    <3>1. trs'[m[1]].state = "trying"
      BY <1>2, <1>3, <2>2
    <3>2. \A i \in post' : i[1] = n + 1 => i = <<n + 1, 0>>
      BY <1>3, <1>7, <1>8
    <3> QED BY <2>2, <3>1, <3>2
  <2>3. CASE m \in post /\ m[1] \in 1 .. n
    <3>1. trs[m[1]].by = "phone" /\ trs'[m[1]].state = trs[m[1]].state
      BY <1>4, <2>3
    <3>2. trs[m[1]].state = "trying" /\ \A i \in post : i[1] = m[1] => i = m
      BY <2>3, <3>1 DEF SubInv, OnItsWay
    <3>3. \A i \in post' : i[1] = m[1] => i \in post
      <4> SUFFICES ASSUME NEW i \in post', i[1] = m[1] PROVE i \in post
        OBVIOUS
      <4>1. i \notin P
        BY <1>8, <3>1
      <4>2. i[1] # n + 1
        BY <1>3, <2>3
      <4> QED BY <1>7, <4>1, <4>2
    <3> QED BY <3>1, <3>2, <3>3
  <2> QED BY <1>7, <2>1, <2>2, <2>3
<1>22. Answers'
  <2>1. \A t \in inbox' : trs'[t].by = "watcher"
    <3>1. \A t \in inbox : t \in 1 .. n /\ trs[t].by = "watcher"
      BY <1>1 DEF SubInv, SubTypeOK, Answers
    <3> QED BY <1>4, <3>1
  <2>2. ASSUME NEW m \in post', trs'[m[1]].by = "watcher", m[2] \in 1 .. 299 PROVE trs'[m[1]].served # "no"
    <3>1. CASE m \in P
      BY <1>4, <1>8, <3>1
    <3>2. CASE m \in post /\ m[1] \in 1 .. n
      <4>1. trs[m[1]].by = "watcher"
        BY <1>4, <2>2, <3>2
      <4>2. trs[m[1]].served # "no"
        BY <2>2, <3>2, <4>1 DEF SubInv, Answers
      <4> QED BY <1>4, <3>2, <4>2
    <3>3. m[2] # 0
      <4>1. 0 \notin 1 .. 299
        OBVIOUS
      <4> QED BY <2>2, <4>1
    <3> QED BY <1>7, <3>1, <3>2, <3>3
  <2>3. ASSUME NEW m \in post', trs'[m[1]].by = "phone" PROVE m[2] \in {0, 200, 407, 481}
    <3>1. m \notin P
      BY <1>4, <1>8, <2>3
    <3>2. CASE m \in post /\ m[1] \in 1 .. n
      <4>1. trs[m[1]].by = "phone"
        BY <1>4, <2>3, <3>2
      <4> QED BY <3>2, <4>1 DEF SubInv, Answers
    <3> QED BY <1>7, <3>1, <3>2
  <2>4. \A t \in 1 .. n + 1 : trs'[t].by = "phone" => trs'[t].answer \in {0, 200, 407, 481}
    <3>1. \A t \in 1 .. n : trs[t].by = "phone" => trs[t].answer \in {0, 200, 407, 481}
      BY <1>1 DEF SubInv, Answers
    <3> QED BY <1>2, <1>3, <1>4, <3>1
  <2>5. \A t \in 1 .. n + 1 : trs'[t].state = "completed" => trs'[t].answer # 0
    <3>1. \A t \in 1 .. n : trs[t].state = "completed" => trs[t].answer # 0
      BY <1>1 DEF SubInv, Answers
    <3> QED BY <1>2, <1>3, <1>4, <3>1
  <2>6. Len(trs') = n + 1
    BY <1>3
  <2>7. \A m \in post' : trs'[m[1]].by = "watcher" /\ m[2] \in 1 .. 299 => trs'[m[1]].served # "no"
    BY <2>2, Zenon
  <2>8. \A m \in post' : trs'[m[1]].by = "phone" => m[2] \in {0, 200, 407, 481}
    BY <2>3, Zenon
  <2> QED BY <2>1, <2>4, <2>5, <2>6, <2>7, <2>8, ZenonT(60) DEF Answers
<1> QED BY <1>3, <1>9, <1>10, <1>11, <1>12, <1>13, <1>14, <1>15, <1>17, <1>18, <1>19, <1>20, <1>21, <1>22 DEF SubInv

\* The next NOTIFY has the next CSeq of its dialog.
LEMMA NotifyNoted ==
    ASSUME SubTypeOK, NEW c \in DOMAIN jn, jn' = Notified(c)
    PROVE  Noted(jn', c, Len(trs) + 1) /\ jn[c].local_cseq + 1 \in Nat
<1>1. jn \in [DOMAIN jn -> Notifier] /\ jn[c] \in Notifier /\ Len(trs) + 1 \in Nat
  BY Typed DEF SubTypeOK
<1>2. PICK k \in Nat : k = jn[c].local_cseq + 1
  BY <1>1 DEF Notifier
<1>3. PICK n \in Nat : n = Len(trs) + 1
  BY <1>1
<1>4. jn' = Out(Counted(jn, c, k), c, n)
  <2>1. jn' = [jn EXCEPT ![c].local_cseq = k, ![c].out = n]
    BY <1>2, <1>3 DEF Notified
  <2>2. [jn EXCEPT ![c].local_cseq = k, ![c].out = n] = [[jn EXCEPT ![c].local_cseq = k] EXCEPT ![c].out = n]
    BY <1>1 DEF Notifier
  <2> QED BY <2>1, <2>2 DEF Out, Counted
<1>5. /\ Counted(jn, c, k) \in [DOMAIN jn -> Notifier] /\ \A d \in DOMAIN jn : d # c => Counted(jn, c, k)[d] = jn[d]
      /\ Counted(jn, c, k)[c].inc = jn[c].inc /\ Counted(jn, c, k)[c].status = jn[c].status
  BY <1>1, NoteFields
<1>6. PICK f \in [DOMAIN jn -> Notifier] : f = Counted(jn, c, k)
  BY <1>5
<1>7. /\ Out(f, c, n) \in [DOMAIN jn -> Notifier] /\ \A d \in DOMAIN jn : d # c => Out(f, c, n)[d] = f[d]
      /\ Out(f, c, n)[c].inc = f[c].inc /\ Out(f, c, n)[c].status = f[c].status /\ Out(f, c, n)[c].out = n
  BY <1>6, NoteFields
<1>8. jn' = Out(f, c, n)
  BY <1>4, <1>6
<1>9. Noted(jn', c, n)
  BY <1>5, <1>6, <1>7, <1>8 DEF Noted
<1> QED BY <1>2, <1>3, <1>9

\* What is told anew is newer than all before.
LEMMA ToldNewer ==
    ASSUME SubInv, Told, NEW c
    PROVE  Newer(c, seen.news + 1) /\ seen.news + 1 \in Nat
<1>1. seen \in [heard : [Calls -> Nat], news : Nat, trouble : Nat]
  BY DEF SubInv, SubTypeOK
<1>2. PICK w \in Nat : w = seen.news + 1 /\ seen' = [seen EXCEPT !.news = w]
  BY <1>1 DEF Told
<1>3. /\ seen' \in [heard : [Calls -> Nat], news : Nat, trouble : Nat]
      /\ seen'.heard = seen.heard /\ seen'.trouble = seen.trouble /\ seen'.news = w
  BY <1>1, <1>2
<1>4. \A u \in Sent("phone", c) : trs[u].news <= w
  <2>1. \A u \in Sent("phone", c) : u \in 1 .. Len(trs) /\ trs[u].by = "phone"
    BY DEF Sent
  <2>2. \A u \in 1 .. Len(trs) : trs[u].news \in Nat
    BY Typed DEF SubInv, Requests
  <2>3. \A u \in Sent("phone", c) : trs[u].news <= seen.news /\ trs[u].news \in Nat
    BY <2>1, <2>2 DEF SubInv, NewsTold
  <2> QED BY <1>1, <1>2, <2>3
<1>5. seen.news <= w /\ w <= w
  BY <1>1, <1>2
<1>6. Newer(c, w)
  BY <1>3, <1>4, <1>5 DEF Newer
<1> QED BY <1>2, <1>6

\* No answer goes with it, and no request before it changes.
LEMMA NothingBefore ==
    ASSUME SubTypeOK
    PROVE  Before(trs, {})
<1>1. trs \in Seq(Requests) /\ \A u \in 1 .. Len(trs) : trs[u] \in Requests
  BY Typed DEF SubTypeOK
<1> QED BY <1>1 DEF Before, Stays, Same

\* The application's own NOTIFY.
LEMMA NotifySentStep ==
    ASSUME SubInv, NEW c \in DOMAIN jn, NEW status \in {"active", "terminated"},
           eXosip_insubscription_send_request(c, status)
    PROVE  SubInv'
<1>1. c \in Calls /\ jn[c] \in Notifier
  BY Typed DEF SubInv, SubTypeOK
<1>2. PICK k, w, r : k = jn[c].local_cseq + 1 /\ w = seen.news + 1 /\ r = NotifyOf(c, k, status, w)
  OBVIOUS
<1>3. trs' = Append(trs, r) /\ post' = post \cup {<<Len(trs) + 1, 0>>} /\ jn' = Notified(c) /\ Told /\ UNCHANGED <<js, inbox>>
  BY <1>2 DEF eXosip_insubscription_send_request, Sends, Notify, NotifyOf
<1>4. jn[c].out # 0 => Closed(jn[c].out)
  BY DEF eXosip_insubscription_send_request, CanNotify, eXosip_find_last_out_notify
<1>5. Noted(jn', c, Len(trs) + 1) /\ k \in Nat
  BY <1>2, <1>3, NotifyNoted DEF SubInv
<1>6. Newer(c, w) /\ w \in Nat
  BY <1>2, <1>3, ToldNewer
<1>7. Fresh(r, "phone", c, k, 0, status, w)
  <2>1. status \in {"none", "active", "terminated"}
    OBVIOUS
  <2>2. Fresh(NotifyOf(c, k, status, w), "phone", c, k, 0, status, w)
    BY <1>1, <1>5, <1>6, <2>1, FreshNotify
  <2> QED BY <1>2, <2>2
<1>8. Before(trs, {})
  BY NothingBefore DEF SubInv
<1>9. post' = post \cup {} \cup {<<Len(trs) + 1, 0>>} /\ inbox' \subseteq inbox /\ js' = js
  BY <1>3
<1> QED BY <1>3, <1>4, <1>5, <1>6, <1>7, <1>8, <1>9, PhoneSends

\* The NOTIFY that was challenged was the last one: trying it again tells no older news.
LEMMA NotifyAgainStep ==
    ASSUME SubInv, NEW c \in DOMAIN jn, _eXosip_insubscription_send_request_with_credential(c)
    PROVE  SubInv'
<1>1. c \in Calls /\ jn[c] \in Notifier /\ jn \in [DOMAIN jn -> Notifier] /\ Len(trs) + 1 \in Nat
  BY Typed DEF SubInv, SubTypeOK
<1>2. PICK t : t = jn[c].out
  OBVIOUS
<1>3. t # 0 /\ Closed(t)
  BY <1>2 DEF _eXosip_insubscription_send_request_with_credential, eXosip_find_last_out_notify, MayRetry, Challenged
<1>4. t \in Sent("phone", c) /\ \A u \in Sent("phone", c) : trs[u].news <= trs[t].news
  BY <1>2, <1>3 DEF SubInv, LastNews
<1>5. t \in 1 .. Len(trs) /\ trs[t] \in Requests /\ trs[t].by = "phone"
  BY <1>4, Typed DEF SubInv, Sent
<1>6. PICK k, s, w, r : k = trs[t].cseq + 1 /\ s = trs[t].status /\ w = trs[t].news /\ r = NotifyAgain(c, k, s, w)
  OBVIOUS
<1>7. k \in Nat /\ w \in Nat /\ s \in {"none", "active", "terminated"}
  BY <1>5, <1>6 DEF Requests
<1>8. trs' = Append(trs, r) /\ post' = post \cup {<<Len(trs) + 1, 0>>} /\ UNCHANGED <<js, inbox, seen>>
  BY <1>2, <1>6 DEF _eXosip_insubscription_send_request_with_credential, eXosip_find_last_out_notify, Sends, NotifyAgain
<1>9. Fresh(r, "phone", c, k, 0, s, w)
  <2>1. Fresh(NotifyAgain(c, k, s, w), "phone", c, k, 0, s, w)
    BY <1>1, <1>7, FreshNotify
  <2> QED BY <1>6, <2>1
<1>10. Newer(c, w)
  <2>1. seen' \in [heard : [Calls -> Nat], news : Nat, trouble : Nat] /\ seen.news \in Nat /\ seen' = seen
    BY <1>8 DEF SubInv, SubTypeOK
  <2>2. w <= seen.news
    BY <1>5, <1>6 DEF SubInv, NewsTold
  <2> QED BY <1>4, <1>6, <2>1, <2>2 DEF Newer
<1>11. Noted(jn', c, Len(trs) + 1)
  <2>1. PICK i \in Nat, m \in Nat, n \in Nat : i = jn[c].local_cseq + 1 /\ m = jn[c].retry + 1 /\ n = Len(trs) + 1
    BY <1>1 DEF Notifier
  <2>2. jn' = Out(Tried(Counted(jn, c, i), c, m), c, n)
    <3>1. jn' = [jn EXCEPT ![c].local_cseq = i, ![c].retry = m, ![c].out = n]
      BY <2>1 DEF _eXosip_insubscription_send_request_with_credential
    <3>2. [jn EXCEPT ![c].local_cseq = i, ![c].retry = m, ![c].out = n]
            = [[[jn EXCEPT ![c].local_cseq = i] EXCEPT ![c].retry = m] EXCEPT ![c].out = n]
      BY <1>1 DEF Notifier
    <3> QED BY <3>1, <3>2 DEF Out, Tried, Counted
  <2>3. PICK f \in [DOMAIN jn -> Notifier] :
           /\ f = Counted(jn, c, i) /\ \A d \in DOMAIN jn : d # c => f[d] = jn[d]
           /\ f[c].inc = jn[c].inc /\ f[c].status = jn[c].status
    BY <1>1, NoteFields
  <2>4. PICK g \in [DOMAIN jn -> Notifier] :
           /\ g = Tried(f, c, m) /\ \A d \in DOMAIN jn : d # c => g[d] = f[d]
           /\ g[c].inc = f[c].inc /\ g[c].status = f[c].status
    BY NoteFields
  <2>5. /\ Out(g, c, n) \in [DOMAIN jn -> Notifier] /\ \A d \in DOMAIN jn : d # c => Out(g, c, n)[d] = g[d]
        /\ Out(g, c, n)[c].inc = g[c].inc /\ Out(g, c, n)[c].status = g[c].status /\ Out(g, c, n)[c].out = n
    BY NoteFields
  <2>6. jn' = Out(g, c, n)
    BY <2>2, <2>3, <2>4
  <2>7. Noted(jn', c, n)
    BY <2>3, <2>4, <2>5, <2>6 DEF Noted
  <2> QED BY <2>1, <2>7
<1>12. jn[c].out # 0 => Closed(jn[c].out)
  BY <1>2, <1>3
<1>13. Before(trs, {})
  BY NothingBefore DEF SubInv
<1>14. post' = post \cup {} \cup {<<Len(trs) + 1, 0>>} /\ inbox' \subseteq inbox /\ js' = js
  BY <1>8
<1> QED BY <1>8, <1>9, <1>10, <1>11, <1>12, <1>13, <1>14, PhoneSends

\* A SUBSCRIBE that the phone accepts of itself has been received.
LEMMA MarkedBefore ==
    ASSUME SubInv, NEW t \in 1 .. Len(trs), trs[t].served # "no", trs[t].by = "watcher"
    PROVE  Before(Marked(t, "completed"), {<<t, 202>>})
<1> DEFINE q == [trs[t] EXCEPT !.served = "completed"]
<1>1. trs[t] \in Requests /\ trs \in Seq(Requests) /\ SubTypeOK
  BY Typed DEF SubInv, SubTypeOK
<1>2. Marked(t, "completed") = Replaced(t, q)
  BY DEF Marked, Replaced
<1>3. Same(trs[t], q) /\ q.state = trs[t].state /\ q.answer = trs[t].answer /\ q.known = trs[t].known /\ q.served = "completed"
  BY <1>1, ServedFields
<1> HIDE DEF q
<1>4. PICK base : base = Replaced(t, q)
  OBVIOUS
<1>5. /\ base \in Seq(Requests) /\ Len(base) = Len(trs) /\ base[t] = q
      /\ \A u \in 1 .. Len(trs) : (u # t => base[u] = trs[u]) /\ Same(trs[u], base[u])
  BY <1>1, <1>3, <1>4, OneBecomes
<1>6. ASSUME NEW u \in 1 .. Len(trs) PROVE Stays(trs[u], base[u])
  <2>1. CASE u = t
    BY <1>3, <1>5, <2>1 DEF Stays
  <2>2. CASE u # t
    BY <1>5, <2>2 DEF Stays
  <2> QED BY <2>1, <2>2
<1>7. \A m \in {<<t, 202>>} : m \in (1 .. Len(trs)) \X (Nat \ {0}) /\ trs[m[1]].by = "watcher" /\ trs[m[1]].served # "no"
  OBVIOUS
<1>8. Before(base, {<<t, 202>>})
  BY <1>5, <1>6, <1>7 DEF Before
<1> QED BY <1>2, <1>4, <1>8

\* The accepting answer and the NOTIFY leave together.
LEMMA AutomaticStep ==
    ASSUME SubInv, NEW t \in inbox, eXosip_insubscription_automatic(t)
    PROVE  SubInv'
<1>1. t \in 1 .. Len(trs) /\ trs[t].served # "no" /\ trs[t].by = "watcher" /\ trs[t].call \in DOMAIN jn
  BY CanAnswerServed DEF eXosip_insubscription_automatic
<1>2. PICK c \in DOMAIN jn : c = trs[t].call
  BY <1>1
<1>3. c \in Calls /\ jn[c] \in Notifier
  BY Typed DEF SubInv, SubTypeOK
<1>4. PICK k, w, r : k = jn[c].local_cseq + 1 /\ w = seen.news + 1 /\ r = NotifyOf(c, k, "active", w)
  OBVIOUS
<1>5. PICK base, P : base = Marked(t, "completed") /\ P = {<<t, 202>>}
  OBVIOUS
<1>6. trs' = Append(base, r) /\ jn' = Notified(c) /\ Told /\ js' = js /\ inbox' \subseteq inbox
  BY <1>2, <1>4, <1>5 DEF eXosip_insubscription_automatic, Notify, NotifyOf, Marked
<1>7. post' = post \cup P \cup {<<Len(trs) + 1, 0>>}
  <2>1. post' = post \cup {<<t, 202>>, <<Len(trs) + 1, 0>>}
    BY DEF eXosip_insubscription_automatic
  <2> QED BY <1>5, <2>1
<1>8. jn[c].out # 0 => Closed(jn[c].out)
  BY <1>2 DEF eXosip_insubscription_automatic, CanNotify, eXosip_find_last_out_notify
<1>9. Noted(jn', c, Len(trs) + 1) /\ k \in Nat
  BY <1>4, <1>6, NotifyNoted DEF SubInv
<1>10. Newer(c, w) /\ w \in Nat
  BY <1>4, <1>6, ToldNewer
<1>11. Fresh(r, "phone", c, k, 0, "active", w)
  <2>1. Fresh(NotifyOf(c, k, "active", w), "phone", c, k, 0, "active", w)
    BY <1>3, <1>9, <1>10, FreshNotify
  <2> QED BY <1>4, <2>1
<1>12. Before(base, P)
  BY <1>1, <1>5, MarkedBefore
<1> QED BY <1>6, <1>7, <1>8, <1>9, <1>10, <1>11, <1>12, PhoneSends

-----------------------------------------------------------------------------
(* The theorems. *)

\* Stuttering.
LEMMA NothingStep == ASSUME SubInv, UNCHANGED subVars PROVE SubInv'
<1>1. js' = js /\ jn' = jn /\ trs' = trs /\ post' = post /\ inbox' = inbox /\ seen' = seen
  BY DEF subVars
<1>2. SubTypeOK'
  BY <1>1 DEF SubInv, SubTypeOK
<1>3. Numbered' /\ OneCSeqEach' /\ NewsTold' /\ Answers' /\ OnItsWay' /\ Unwatched' /\ Farewell' /\ Delivered'
  BY <1>1 DEF SubInv, Numbered, Firsts, OneCSeqEach, NewsTold, Answers, OnItsWay, Unwatched, Farewell, Delivered
<1>4. (\A by, c : Sent(by, c)' = Sent(by, c)) /\ (\A t : Closed(t)' = Closed(t))
  BY <1>1 DEF Sent, Closed
<1>5. Watching'
  BY <1>1, <1>4 DEF SubInv, Watching, Latest, eXosip_find_last_out_subscribe
<1>6. Subscribed' /\ LastNews' /\ OneOpen' /\ HeardWasTold'
  BY <1>1, <1>4 DEF SubInv, Subscribed, LastNews, OneOpen, HeardWasTold
<1>7. Served'
  BY <1>1, <1>4 DEF SubInv, Served, Reached, GivenUp
<1> QED BY <1>2, <1>3, <1>5, <1>6, <1>7 DEF SubInv

\* Every step keeps the invariant.
LEMMA SubStep == SubInv /\ [SubscriptionsNext]_subVars => SubInv'
<1> SUFFICES ASSUME SubInv, [SubscriptionsNext]_subVars PROVE SubInv'
  OBVIOUS
<1>1. CASE eXosip_subscribe_send_initial_request
  BY <1>1, InitialRequestStep
<1>2. ASSUME NEW c \in DOMAIN js, NEW expires \in {0, 600}, eXosip_subscribe_refresh(c, expires) PROVE SubInv'
  BY <1>2, RefreshStep
<1>3. ASSUME NEW c \in DOMAIN js, _eXosip_subscribe_automatic_refresh(c) PROVE SubInv'
  BY <1>3, AutomaticRefreshStep
<1>4. ASSUME NEW c \in DOMAIN js, _eXosip_subscribe_send_request_with_credential(c) PROVE SubInv'
  BY <1>4, CredentialStep
<1>5. ASSUME NEW c \in DOMAIN js, eXosip_subscribe_remove(c) PROVE SubInv'
  BY <1>5, RemoveStep
<1>6. ASSUME NEW c \in DOMAIN jn, NEW status \in {"active", "terminated"}, eXosip_insubscription_send_request(c, status)
      PROVE  SubInv'
  BY <1>6, NotifySentStep
<1>7. ASSUME NEW c \in DOMAIN jn, _eXosip_insubscription_send_request_with_credential(c) PROVE SubInv'
  BY <1>7, NotifyAgainStep
<1>8. ASSUME NEW c \in DOMAIN jn, eXosip_insubscription_remove(c) PROVE SubInv'
  BY <1>8, NotifierRemovedStep
<1>9. ASSUME NEW t \in inbox, NEW code \in {202, 403}, eXosip_insubscription_send_answer(t, code) PROVE SubInv'
  BY <1>9, SendAnswerStep
<1>10. ASSUME NEW t \in inbox, eXosip_insubscription_automatic(t) PROVE SubInv'
  BY <1>10, AutomaticStep
<1>11. ASSUME NEW m \in post, cb_rcv_4subscribe(m[1], m[2]) PROVE SubInv'
  BY <1>11, SubscribeAnsweredStep
<1>12. ASSUME NEW m \in post, cb_rcv_4notify(m[1], m[2]) PROVE SubInv'
  BY <1>12, NotifyAnsweredStep
<1>13. ASSUME NEW m \in post, m[2] = 0, ReceiveSubscribe(m[1]) PROVE SubInv'
  BY <1>13, SubscribeStep
<1>14. ASSUME NEW m \in post, m[2] = 0, ReceiveNotify(m[1]) PROVE SubInv'
  BY <1>14, NotifyStep
<1>15. ASSUME NEW m \in post, Trouble(m) PROVE SubInv'
  BY <1>15, TroubleStep
<1>16. ASSUME NEW t \in DOMAIN trs, cb_xixt_kill_transaction(t) PROVE SubInv'
  BY <1>16, KillStep
<1>17. CASE UNCHANGED subVars
  BY <1>17, NothingStep
<1>18. ASSUME NEW c \in DOMAIN js,
              \/ \E expires \in {0, 600} : eXosip_subscribe_refresh(c, expires)
              \/ _eXosip_subscribe_automatic_refresh(c)
              \/ _eXosip_subscribe_send_request_with_credential(c)
              \/ eXosip_subscribe_remove(c)
       PROVE  SubInv'
  BY <1>2, <1>3, <1>4, <1>5, <1>18, ZenonT(60)
<1>19. ASSUME NEW c \in DOMAIN jn,
              \/ \E status \in {"active", "terminated"} : eXosip_insubscription_send_request(c, status)
              \/ _eXosip_insubscription_send_request_with_credential(c)
              \/ eXosip_insubscription_remove(c)
       PROVE  SubInv'
  BY <1>6, <1>7, <1>8, <1>19, Zenon
<1>20. ASSUME NEW t \in inbox,
              \/ \E code \in {202, 403} : eXosip_insubscription_send_answer(t, code)
              \/ eXosip_insubscription_automatic(t)
       PROVE  SubInv'
  BY <1>9, <1>10, <1>20, Zenon
<1>21. ASSUME NEW m \in post,
              \/ cb_rcv_4subscribe(m[1], m[2]) \/ cb_rcv_4notify(m[1], m[2])
              \/ m[2] = 0 /\ (ReceiveSubscribe(m[1]) \/ ReceiveNotify(m[1]))
              \/ Trouble(m)
       PROVE  SubInv'
  BY <1>11, <1>12, <1>13, <1>14, <1>15, <1>21, Zenon
<1>22. CASE SubscriptionsNext
  BY <1>1, <1>16, <1>18, <1>19, <1>20, <1>21, <1>22, Zenon DEF SubscriptionsNext
<1> QED BY <1>17, <1>22

\* Whatever gets lost, overtaken, repeated or challenged, both ends of a subscription
\* keep what their handlers take for granted: eXosip_find_last_out_subscribe finds the
\* only request of the watcher that may be open, and the NOTIFY that is open is the
\* one the phone noted last.
THEOREM SubInvHolds == SubscriptionsSpec => []SubInv
<1>1. SubscriptionsInit => SubInv
  BY SubInitially
<1>2. SubInv /\ [SubscriptionsNext]_subVars => SubInv'
  BY SubStep
<1> QED BY <1>1, <1>2, PTL DEF SubscriptionsSpec

\* The NOTIFY still on its way is open, and so the one its phone sent last, with the
\* latest news; what the watcher heard was told by some NOTIFY of the call.
LEMMA NewsComesInOrder == SubInv => NewsInOrder
<1> SUFFICES ASSUME SubInv, NEW m \in post, m[2] = 0, trs[m[1]].by = "phone", trs[m[1]].known
             PROVE  trs[m[1]].news >= seen.heard[trs[m[1]].call]
  BY DEF NewsInOrder
<1>1. PICK t \in 1 .. Len(trs) : t = m[1]
  BY Typed DEF SubInv
<1>2. trs[t] \in Requests /\ trs[t].call \in Calls /\ trs[t].news \in Nat /\ trs[t].by = "phone" /\ trs[t].known
  BY <1>1, Typed DEF SubInv, Requests
<1>3. ~Closed(t)
  BY <1>1 DEF SubInv, OnItsWay, Closed
<1>4. trs[t].call \in DOMAIN jn /\ jn[trs[t].call].out = t /\ t # 0
  BY <1>2, <1>3 DEF SubInv, OneOpen
<1>5. \A u \in Sent("phone", trs[t].call) : trs[u].news <= trs[t].news
  BY <1>4 DEF SubInv, LastNews
<1>6. seen.heard[trs[t].call] = 0 \/ \E u \in Sent("phone", trs[t].call) : trs[u].news = seen.heard[trs[t].call]
  BY <1>2 DEF SubInv, HeardWasTold
<1>7. seen.heard[trs[t].call] \in Nat
  BY <1>2 DEF SubInv, SubTypeOK
<1>8. seen.heard[trs[t].call] <= trs[t].news
  BY <1>2, <1>5, <1>6
<1> QED BY <1>1, <1>2, <1>7, <1>8

\* A CSeq is never used twice because the next one is that of the latest request.
LEMMA OneDialogOfEach == SubInv => OneDialogEach
<1> SUFFICES ASSUME SubInv PROVE OneDialogEach
  OBVIOUS
<1>1. DOMAIN trs = 1 .. Len(trs)
  BY Typed DEF SubInv
<1>2. \A c \in DOMAIN js : Len(js[c].dialogs) <= 1
  BY DEF SubInv, Watching
<1> QED BY <1>1, <1>2 DEF SubInv, OneCSeqEach, OneDialogEach

\* Where nothing went wrong a phone forgets only whoever gave up, and the end of
\* that request is the end of the watcher's subscription too.
LEMMA WhoeverWatchesIsServed == SubInv => StillServed
<1> SUFFICES ASSUME SubInv, \A t \in DOMAIN trs : trs[t].state = "terminated", seen.trouble = 0,
                    NEW c \in DOMAIN js, js[c].dialogs # << >>
             PROVE  c \in DOMAIN jn
  BY DEF StillServed
<1>1. DOMAIN trs = 1 .. Len(trs)
  BY Typed DEF SubInv
<1>2. Reached(c) /\ (c \in DOMAIN jn \/ GivenUp(c))
  BY DEF SubInv, Served
<1>3. ~GivenUp(c)
  <2> SUFFICES ASSUME NEW t \in Sent("watcher", c), trs[t].expires = 0 PROVE FALSE
    BY DEF GivenUp
  <2>1. t \in 1 .. Len(trs) /\ trs[t].by = "watcher" /\ trs[t].call = c
    BY DEF Sent
  <2>2. trs[t].call \notin DOMAIN js
    BY <1>1, <2>1 DEF SubInv, Farewell
  <2> QED BY <2>1, <2>2
<1> QED BY <1>2, <1>3

\* A watcher is kept up to date: by one dialog and one CSeq a request, with news that
\* never go back, and served for as long as it watches and nothing gets lost.
THEOREM WatcherStaysUpToDate == SubscriptionsSpec => []WatcherUpToDate
<1>1. SubInv => WatcherUpToDate
  BY NewsComesInOrder, OneDialogOfEach, WhoeverWatchesIsServed DEF WatcherUpToDate
<1> QED BY <1>1, SubInvHolds, PTL
=============================================================================
